---- MODULE Spec2Model ----
(***************************************************************************)
(* A model of sati_bot.py: the per-user dialogue state machine (STATE,     *)
(* here State, since STATE is a reserved word),                            *)
(* the CSV record store, the summary engine and the reflection generator.  *)
(*                                                                         *)
(* Representation.                                                         *)
(*  - A Python str is a sequence of tokens.  A token is one character      *)
(*    where the code looks at characters (" ", "/", "-", ".", "@", the     *)
(*    digits) and an opaque word elsewhere ("log", "a", ...).  The module  *)
(*    is ASCII, so the Thai literals of the source are transliterated.     *)
(*  - A Python dict is a function whose DOMAIN is the set of its keys, so  *)
(*    "key absent" and "key present" are told apart as in the source.      *)
(*  - A CSV file is a sequence of rows, a row a sequence of cells; the     *)
(*    cells of a header row are column names (TLA+ strings), the cells of  *)
(*    a data row are Python strs.                                          *)
(***************************************************************************)
EXTENDS Integers, Sequences, FiniteSets, TLC

VARIABLES
    State,      \* src 114 (STATE): user id -> session dict (domain: users with an entry)
    fs,         \* the file system: path -> CSV file (domain: existing files)
    CSV_PATH,   \* src 79-84, 155: the active path of the event file
    job,        \* a temp-file rewrite in progress (migration / delete-last)
    last,       \* what the last handled operation was and what it returned
    evLeft,     \* inbound updates (store operations) the behaviour may still take
    staleLeft,  \* presses of a button of an earlier message it may still take
    gen,        \* the reflection generator's inputs and result
    env,        \* the deployment: unwritable paths, file systems, backend
    hist,       \* history: user -> notes on the user's latest log flow
    msgs,       \* user -> the reflection messages sent to the user's chat
    MEDITATION_CSV_PATH     \* src 606-611, 630: the active path of the meditation file

vars == <<State, fs, CSV_PATH, job, last, evLeft, staleLeft, gen, env, hist,
          msgs, MEDITATION_CSV_PATH>>

----------------------------------------------------------------------------
(* Bounds of the model.                                                    *)

MaxEvents == 4      \* inbound updates per behaviour of the dialogue
MaxInitRows == 2    \* data rows of an event file found at start-up
MaxStoreOps == 2    \* store operations per behaviour of the store
MaxStale == 1       \* presses of buttons that are not those of the current step

----------------------------------------------------------------------------
(* Python values.                                                          *)

None == <<"<None>">>            \* Python None where a str is expected
EmptyDict == [k \in {} |-> 0]

Get(d, k, default) == IF k \in DOMAIN d THEN d[k] ELSE default

Put(d, k, v) == [x \in DOMAIN d \cup {k} |-> IF x = k THEN v ELSE d[x]]

Pop(d, k) == [x \in DOMAIN d \ {k} |-> d[x]]

SetDefault(d, k, v) == IF k \in DOMAIN d THEN d ELSE Put(d, k, v)

Digits == <<"0", "1", "2", "3", "4", "5", "6", "7", "8", "9">>

DigitVal(c) == CHOOSE i \in 0..9 : Digits[i + 1] = c

IsDigit(c) == \E i \in 1..10 : Digits[i] = c

RECURSIVE NatToStr(_)
NatToStr(n) ==
    IF n < 10 THEN <<Digits[n + 1]>>
    ELSE Append(NatToStr(n \div 10), Digits[(n % 10) + 1])

\* str(n) for a Python int
IntToStr(n) == IF n < 0 THEN <<"-">> \o NatToStr(0 - n) ELSE NatToStr(n)

RECURSIVE LStrip(_)
LStrip(s) == IF s # <<>> /\ Head(s) = " " THEN LStrip(Tail(s)) ELSE s

RECURSIVE RStrip(_)
RStrip(s) ==
    IF s # <<>> /\ s[Len(s)] = " " THEN RStrip(SubSeq(s, 1, Len(s) - 1)) ELSE s

\* str.strip()
Strip(s) == RStrip(LStrip(s))

----------------------------------------------------------------------------
(* The record store: src 103-111, 138-245.                                 *)

CSV_FIELDS ==
    << "timestamp_iso", "user_id", "username", "chat_id", "tag", "event_desc",
       "dissatisfaction_score", "dissatisfaction_reason",
       "reaction_desc", "reaction_score", "reaction_reason" >>

\* The candidate paths of the event file (src 84, 149) and the file that
\* tempfile.NamedTemporaryFile creates (src 179, 236).
PrimaryPath == "primary"
HomePath == "home"
TmpPidPath == "tmp_pid"
TempFile == "tempfile"
MedPrimaryPath == "med_primary"     \* src 606-611

Exists(f, p) == p \in DOMAIN f

WriteFile(f, p, content) ==
    [q \in DOMAIN f \cup {p} |-> IF q = p THEN content ELSE f[q]]

RemoveFile(f, p) == [q \in DOMAIN f \ {p} |-> f[q]]

\* open(cand, "w") + writerow(CSV_FIELDS) for the first fallback that can be
\* written (src 149-161); raised: every candidate failed and the OSError is re-raised.
RECURSIVE InitFallbacks(_, _, _, _)
InitFallbacks(f, path, deny, cands) ==
    IF cands = <<>> THEN [fs |-> f, path |-> path, raised |-> TRUE]
    ELSE IF Head(cands) \in deny
         THEN InitFallbacks(f, path, deny, Tail(cands))
         ELSE [fs |-> WriteFile(f, Head(cands), <<CSV_FIELDS>>),
               path |-> Head(cands), raised |-> FALSE]

\* (variant) the file is written whether or not it exists
init_csv_if_needed_always(f, path, deny) ==
    IF path \notin deny
    THEN [fs |-> WriteFile(f, path, <<CSV_FIELDS>>), path |-> path, raised |-> FALSE]
    ELSE InitFallbacks(f, path, deny, <<HomePath, TmpPidPath>>)

\* src 138-161
init_csv_if_needed(f, path, deny) ==
    IF Exists(f, path) THEN [fs |-> f, path |-> path, raised |-> FALSE]
    ELSE IF path \notin deny
         THEN [fs |-> WriteFile(f, path, <<CSV_FIELDS>>), path |-> path,
               raised |-> FALSE]
         ELSE InitFallbacks(f, path, deny, <<HomePath, TmpPidPath>>)

\* idx = {h: i for i, h in enumerate(header)} (src 178): the last column of a name wins
ColumnIndex(header, k) ==
    IF \E i \in 1..Len(header) : header[i] = k
    THEN CHOOSE i \in 1..Len(header) :
            header[i] = k /\ \A j \in (i + 1)..Len(header) : header[j] # k
    ELSE 0

\* val(k) of src 184-186, for one old row
MigrateVal(header, r, k) ==
    LET j == ColumnIndex(header, k)
    IN IF j # 0 /\ j <= Len(r) THEN r[j] ELSE <<>>

\* (variant) the cells are copied by position
MigrateRow_positional(header, r) ==
    [c \in 1..Len(CSV_FIELDS) |-> IF c <= Len(r) THEN r[c] ELSE <<>>]

MigrateRow(header, r) ==
    [c \in 1..Len(CSV_FIELDS) |-> MigrateVal(header, r, CSV_FIELDS[c])]

\* (mutant) the early return of src 175-176 is never taken
MigratedContent_noreturn(rows) ==
    IF rows = <<>> THEN <<CSV_FIELDS>>
    ELSE <<CSV_FIELDS>> \o
         [i \in 1..(Len(rows) - 1) |-> MigrateRow(Head(rows), rows[i + 1])]

\* The content the migration leaves in the event file, given its content
\* (src 167-195): unchanged when the header is canonical.
MigratedContent(rows) ==
    IF rows = <<>> THEN <<CSV_FIELDS>>
    ELSE IF Head(rows) = CSV_FIELDS THEN rows
    ELSE <<CSV_FIELDS>> \o
         [i \in 1..(Len(rows) - 1) |-> MigrateRow(Head(rows), rows[i + 1])]

\* src 163-195, run to completion
migrate_csv_strip_letting_go_if_needed(f, path) ==
    IF ~Exists(f, path) THEN f
    ELSE WriteFile(f, path, MigratedContent(f[path]))

\* src 197-199
ensure_csv_ready(f, path, deny) ==
    LET i == init_csv_if_needed(f, path, deny)
    IN IF i.raised THEN i
       ELSE [fs |-> migrate_csv_strip_letting_go_if_needed(i.fs, i.path),
             path |-> i.path, raised |-> FALSE]

\* csv.writer's rendering of one value: None is written as the empty field
CsvCell(v) == IF v = None THEN <<>> ELSE v

\* The cells save_row writes for a row dict (src 205-212)
RowCells(row) ==
    << CsvCell(Get(row, "timestamp_iso", <<>>)),
       IF "user_id" \in DOMAIN row THEN IntToStr(row["user_id"]) ELSE <<>>,
       CsvCell(Get(row, "username", <<>>)),
       IF "chat_id" \in DOMAIN row THEN IntToStr(row["chat_id"]) ELSE <<>>,
       CsvCell(Get(row, "tag", <<>>)),
       CsvCell(Get(row, "event_desc", <<>>)),
       IntToStr(Get(row, "dissatisfaction_score", 0)),
       CsvCell(Get(row, "dissatisfaction_reason", <<>>)),
       CsvCell(Get(row, "reaction_desc", <<>>)),
       IntToStr(Get(row, "reaction_score", 0)),
       CsvCell(Get(row, "reaction_reason", <<>>)) >>

\* src 201-212
save_row(f, path, deny, row) ==
    LET e == ensure_csv_ready(f, path, deny)
    IN IF e.raised THEN e
       ELSE [fs |-> WriteFile(e.fs, e.path, Append(e.fs[e.path], RowCells(row))),
             path |-> e.path, raised |-> FALSE]

\* csv.DictReader (src 217): one dict per data row, keyed by the header; a short
\* row gets None for the missing columns, the surplus cells of a long row go
\* under the key None (here "<restkey>").
RestKey == "<restkey>"

DictOfRow(header, r) ==
    LET named == [k \in {header[i] : i \in 1..Len(header)} |->
                    LET j == ColumnIndex(header, k)
                    IN IF j <= Len(r) THEN r[j] ELSE None]
    IN IF Len(r) > Len(header)
       THEN Put(named, RestKey, SubSeq(r, Len(header) + 1, Len(r)))
       ELSE named

DictReader(rows) ==
    IF rows = <<>> THEN <<>>
    ELSE LET body == SelectSeq(Tail(rows), LAMBDA r : r # <<>>)
         IN [i \in 1..Len(body) |-> DictOfRow(Head(rows), body[i])]

\* src 214-217; the rows are read after ensure_csv_ready
load_rows(f, path, deny) ==
    LET e == ensure_csv_ready(f, path, deny)
    IN [fs |-> e.fs, path |-> e.path, raised |-> e.raised,
        rows |-> IF e.raised THEN <<>> ELSE DictReader(e.fs[e.path])]

\* (mutant) the first matching row instead of the last
LastIndexOfUser_first(rows, uid_str) ==
    IF \E i \in 1..Len(rows) : Get(rows[i], "user_id", None) = uid_str
    THEN CHOOSE i \in 1..Len(rows) :
            /\ Get(rows[i], "user_id", None) = uid_str
            /\ \A j \in 1..(i - 1) : Get(rows[j], "user_id", None) # uid_str
    ELSE 0

\* The index of the last dict whose user_id is uid_str, 0 if none (src 220-223, 228-232)
LastIndexOfUser(rows, uid_str) ==
    IF \E i \in 1..Len(rows) : Get(rows[i], "user_id", None) = uid_str
    THEN CHOOSE i \in 1..Len(rows) :
            /\ Get(rows[i], "user_id", None) = uid_str
            /\ \A j \in (i + 1)..Len(rows) : Get(rows[j], "user_id", None) # uid_str
    ELSE 0

\* (variant) the last row of the file, whoever wrote it
load_last_row_for_user_any(f, path, deny, uid_str) ==
    LET l == load_rows(f, path, deny)
        i == Len(l.rows)
    IN [fs |-> l.fs, path |-> l.path, raised |-> l.raised,
        found |-> i # 0, row |-> IF i # 0 THEN l.rows[i] ELSE EmptyDict]

\* src 219-224; found = FALSE is the None the source returns
load_last_row_for_user(f, path, deny, uid_str) ==
    LET l == load_rows(f, path, deny)
        i == LastIndexOfUser(l.rows, uid_str)
    IN [fs |-> l.fs, path |-> l.path, raised |-> l.raised,
        found |-> i # 0, row |-> IF i # 0 THEN l.rows[i] ELSE EmptyDict]

RemoveAt(s, i) == SubSeq(s, 1, i - 1) \o SubSeq(s, i + 1, Len(s))

\* csv.DictWriter.writerow (src 238-243): a key outside fieldnames raises ValueError
DictWriterRaises(d) == \E k \in DOMAIN d : \A c \in 1..Len(CSV_FIELDS) : CSV_FIELDS[c] # k

DictWriterRow(d) == [c \in 1..Len(CSV_FIELDS) |-> CsvCell(Get(d, CSV_FIELDS[c], <<>>))]

\* The rows the temp file of delete_last_row_for_user receives (src 236-243):
\* the header, then the remaining dicts up to the first one DictWriter refuses.
RECURSIVE WrittenDicts(_)
WrittenDicts(ds) ==
    IF ds = <<>> \/ DictWriterRaises(Head(ds)) THEN <<>>
    ELSE <<DictWriterRow(Head(ds))>> \o WrittenDicts(Tail(ds))

\* src 226-245, run to completion.  removed: the dict returned; found = FALSE:
\* the source returns None.  raised: an exception left the function.
delete_last_row_for_user(f, path, deny, uid_str) ==
    LET l == load_rows(f, path, deny)
        i == LastIndexOfUser(l.rows, uid_str)
        rest == RemoveAt(l.rows, i)
        bad == \E n \in 1..Len(rest) : DictWriterRaises(rest[n])
    IN IF l.raised \/ i = 0
       THEN [fs |-> l.fs, path |-> l.path, raised |-> l.raised,
             found |-> FALSE, removed |-> EmptyDict]
       ELSE IF bad
       THEN [fs |-> WriteFile(l.fs, TempFile, <<CSV_FIELDS>> \o WrittenDicts(rest)),
             path |-> l.path, raised |-> TRUE, found |-> TRUE, removed |-> l.rows[i]]
       ELSE [fs |-> WriteFile(l.fs, l.path, <<CSV_FIELDS>> \o WrittenDicts(rest)),
             path |-> l.path, raised |-> FALSE, found |-> TRUE, removed |-> l.rows[i]]

----------------------------------------------------------------------------
(* The reflection generator: src 297-356.                                  *)

\* src 303-312, abridged
FallbackText == <<"(AI)", "no", "Gemini", "-", "fallback", "teaching">>

\* What one call of generate_content does: it returns a response whose text
\* is a str (or None), or it raises an exception with a message.
Responses ==
    {[kind |-> "text", text |-> t] :
        t \in {<<"be", "calm">>, <<" ", "ok", " ">>, <<" ">>, <<>>, None}}

Failures ==
    {[kind |-> "error", text |-> m] :
        m \in {<<"503", " ", "busy">>, <<"UNAVAILABLE">>, <<"Model", " ", "Overloaded">>,
               <<"400", " ", "bad">>, <<>>}}

Outcomes == Responses \cup Failures

\* str.lower() on the words the source looks for
Lower(tok) == IF tok = "Overloaded" THEN "overloaded" ELSE tok

Contains(msg, tok) == \E i \in 1..Len(msg) : msg[i] = tok

\* (variant) every error counts as a transient one
IsTransient_any(msg) == TRUE

\* src 348: the substrings that make an error a transient one
IsTransient(msg) ==
    \/ Contains(msg, "503")
    \/ Contains(msg, "UNAVAILABLE")
    \/ Contains([i \in 1..Len(msg) |-> Lower(msg[i])], "overloaded")

Attempts == 3       \* src 333

\* src 334-356 from attempt number `attempt` on (0-based, as in the source);
\* outs[k] is what the k-th call of the backend does.  Returns the text, the
\* number of backend calls made and the sleeps taken, in seconds.
\* (variant) no except clause around the backend call: an error leaves the function
GenLoop_uncaught(outs, attempt, calls, sleeps) ==
    LET o == outs[attempt + 1]
        text == Strip(IF o.text = None THEN <<>> ELSE o.text)
    IN IF o.kind = "text"
       THEN [text |-> IF text # <<>> THEN text ELSE FallbackText,
             calls |-> calls + 1, sleeps |-> sleeps, raised |-> FALSE]
       ELSE [text |-> <<>>, calls |-> calls + 1, sleeps |-> sleeps, raised |-> TRUE]

\* (variant) a longer wait
Backoff_long(attempt) == 3 + attempt * 2

\* src 349: the seconds of time.sleep after the failure of attempt (from 0)
Backoff(attempt) == 1 + attempt * 2

\* raised = TRUE: an exception leaves the function.
RECURSIVE GenLoop(_, _, _, _)
GenLoop(outs, attempt, calls, sleeps) ==
    IF attempt >= Attempts
    THEN [text |-> FallbackText, calls |-> calls, sleeps |-> sleeps, raised |-> FALSE]
    ELSE LET o == outs[attempt + 1]
         IN IF o.kind = "text"
            THEN LET text == Strip(IF o.text = None THEN <<>> ELSE o.text)
                 IN [text |-> IF text # <<>> THEN text ELSE FallbackText,
                     calls |-> calls + 1, sleeps |-> sleeps, raised |-> FALSE]
            ELSE IF attempt < Attempts - 1 /\ IsTransient(o.text)
            THEN GenLoop(outs, attempt + 1, calls + 1, Append(sleeps, Backoff(attempt)))
            ELSE [text |-> <<"(AI)", "error:">> \o o.text \o <<"\n\n">> \o FallbackText,
                  calls |-> calls + 1, sleeps |-> sleeps, raised |-> FALSE]

\* (variant) the backend is called whether or not one is configured
gemini_reflection_nocheck(client, outs) == GenLoop(outs, 0, 0, <<>>)

\* src 297-356: client = FALSE is GENAI_CLIENT is None
gemini_reflection(client, outs) ==
    IF ~client
    THEN [text |-> FallbackText, calls |-> 0, sleeps |-> <<>>, raised |-> FALSE]
    ELSE GenLoop(outs, 0, 0, <<>>)

----------------------------------------------------------------------------
(* Users, clock and the values users send.                                 *)

Users == {1, 2}

\* Telegram profiles: user 1 has a username, user 2 only a first name.
Profile(u) ==
    IF u = 1 THEN [username |-> <<"al">>, first_name |-> <<"Al">>, last_name |-> <<>>]
    ELSE [username |-> <<>>, first_name |-> <<"Bo">>, last_name |-> <<>>]

\* src 120-125
username_from(u) ==
    LET p == Profile(u)
        name == p.first_name \o
                (IF p.last_name # <<>> THEN <<" ">> \o p.last_name ELSE <<>>)
    IN IF p.username # <<>> THEN <<"@">> \o p.username
       ELSE IF Strip(name) # <<>> THEN Strip(name) ELSE IntToStr(u)

\* A private chat: Telegram gives it the id of its user.
ChatOf(u) == u

\* datetime.isoformat(timespec="seconds") of a moment of day d, and
\* datetime.fromisoformat(s).date(): ok = FALSE is the ValueError.
Isoformat(d) == <<"D">> \o NatToStr(d)

RECURSIVE DigitsVal(_, _)
DigitsVal(s, acc) ==
    IF s = <<>> THEN acc ELSE DigitsVal(Tail(s), acc * 10 + DigitVal(Head(s)))

AllDigits(s) == s # <<>> /\ \A i \in 1..Len(s) : IsDigit(s[i])

FromIso(s) ==
    IF Len(s) >= 2 /\ Head(s) = "D" /\ AllDigits(Tail(s))
    THEN [ok |-> TRUE, day |-> DigitsVal(Tail(s), 0)]
    ELSE [ok |-> FALSE, day |-> 0]

\* src 100 ("yok-loek" stands for the Thai keyword)
CANCEL_TEXT == <<"yokloek">>

\* src 101, transliterated
TAGS == << <<"ngan">>, <<"khonrak">>, <<"khropkhrua">>, <<"ngoen">>,
           <<"sukkhaphap">>, <<"tuaeng">>, <<"uenuen">> >>

----------------------------------------------------------------------------
(* The store on its own: an event file found at start-up, appends,         *)
(* ensure_csv_ready and delete-last, with the temp-file rewrite of         *)
(* src 179-195 and 236-244 taken one write at a time, so that the process  *)
(* can be interrupted between two writes.                                  *)

\* A row as save_row wrote it for user u; k tells two entries of a user apart.
StoredRow(u, k) ==
    RowCells([timestamp_iso |-> Isoformat(k), user_id |-> u,
              username |-> username_from(u), chat_id |-> ChatOf(u),
              tag |-> TAGS[k], event_desc |-> <<"e", Digits[k + 1]>>,
              dissatisfaction_score |-> 2 * k, dissatisfaction_reason |-> <<"why">>,
              reaction_desc |-> <<"did">>, reaction_score |-> 11 - k,
              reaction_reason |-> <<"-">>])

StoredRows == {StoredRow(u, k) : u \in Users, k \in 1..2}

\* a last row whose append was cut short (the append is not synced, spec 1)
CutRow == SubSeq(StoredRow(2, 2), 1, 8)

\* The header of a file written by the version with letting_go_score and
\* without chat_id (src 7-8, 164).
LegacyHeader ==
    << "timestamp_iso", "user_id", "username", "tag", "event_desc",
       "dissatisfaction_score", "dissatisfaction_reason", "letting_go_score",
       "reaction_desc", "reaction_score", "reaction_reason" >>

LegacyRow(u, k) ==
    LET r == StoredRow(u, k)
    IN << r[1], r[2], r[3], r[5], r[6], r[7], r[8], <<"5">>, r[9], r[10], r[11] >>

\* legacy rows, whole and cut short after the letting_go_score column
LegacyRows ==
    {LegacyRow(u, k) : u \in Users, k \in 1..2}
        \cup {SubSeq(LegacyRow(2, 2), 1, 8)}

SeqsUpTo(S, n) == UNION {[1..m -> S] : m \in 0..n}

\* The event files a start-up can find: none, an empty one, one this version
\* wrote, one an older version wrote.
InitFiles ==
    {<<>>}
      \cup {<<CSV_FIELDS>> \o rs : rs \in SeqsUpTo(StoredRows, MaxInitRows)}
      \cup {<<CSV_FIELDS>> \o Append(rs, CutRow) :
                rs \in SeqsUpTo(StoredRows, MaxInitRows - 1)}
      \cup {<<LegacyHeader>> \o rs : rs \in SeqsUpTo(LegacyRows, MaxInitRows)}

IdleJob == [kind |-> "idle", phase |-> "-", old |-> <<>>, new |-> <<>>, written |-> 0]

\* The record of the last operation.  op: the handler or store operation; uid,
\* data: who sent what; pre: the sender's step before; out: the reply; n: a
\* count (rows of the event file before the operation, or runs of a migration);
\* before, found, removed: the file before a store operation and its result;
\* ret: the value a summary returned.
NoLast == [op |-> "none", uid |-> 0, data |-> <<>>, pre |-> "-", out |-> "-",
           n |-> 0, before |-> <<>>, found |-> FALSE, removed |-> EmptyDict,
           ret |-> EmptyDict]

NoGen == [client |-> FALSE]

Live == fs[CSV_PATH]

\* the event file exists with the canonical header
Ready == Exists(fs, CSV_PATH) /\ Live # <<>> /\ Head(Live) = CSV_FIELDS

InitStore ==
    /\ State = EmptyDict
    /\ CSV_PATH = PrimaryPath
    /\ \/ fs = EmptyDict
       \/ \E f \in InitFiles : fs = WriteFile(EmptyDict, PrimaryPath, f)
    /\ job = IdleJob
    /\ last = NoLast
    /\ evLeft = MaxStoreOps
    /\ staleLeft = 0
    /\ gen = NoGen
    /\ MEDITATION_CSV_PATH = MedPrimaryPath
    /\ hist = EmptyDict
    /\ msgs = EmptyDict
    /\ \E x \in BOOLEAN : env = [deny |-> {}, sameFs |-> x, client |-> FALSE]

FrameStore == UNCHANGED <<State, gen, env, staleLeft, hist, msgs, MEDITATION_CSV_PATH>>

\* save_row (src 201-212) on a file that is ready
StoreAppend(u, k) ==
    /\ job.kind = "idle" /\ evLeft > 0
    /\ Ready
    /\ LET r == save_row(fs, CSV_PATH, env.deny,
                    [timestamp_iso |-> Isoformat(k), user_id |-> u,
                     username |-> username_from(u), chat_id |-> ChatOf(u),
                     tag |-> TAGS[k], event_desc |-> <<"e", Digits[k + 1]>>,
                     dissatisfaction_score |-> 2 * k,
                     dissatisfaction_reason |-> <<"why">>,
                     reaction_desc |-> <<"did">>, reaction_score |-> 11 - k,
                     reaction_reason |-> <<"-">>])
       IN /\ fs' = r.fs
          /\ CSV_PATH' = r.path
    /\ last' = [NoLast EXCEPT !.op = "append", !.uid = u, !.before = Live]
    /\ evLeft' = evLeft - 1
    /\ UNCHANGED job
    /\ FrameStore

\* ensure_csv_ready (src 197-199) where it rewrites nothing through a temp
\* file: the header is canonical, or the file is empty and gets its header.
StoreEnsureInPlace ==
    /\ job.kind = "idle" /\ evLeft > 0
    /\ IF Exists(fs, CSV_PATH) /\ Live # <<>> THEN Head(Live) = CSV_FIELDS ELSE TRUE
    /\ LET r == ensure_csv_ready(fs, CSV_PATH, env.deny)
       IN /\ fs' = r.fs
          /\ CSV_PATH' = r.path
    /\ last' = [NoLast EXCEPT !.op = "migrate",
                  !.before = IF Exists(fs, CSV_PATH) THEN Live ELSE <<>>,
                  !.n = IF last.op = "migrate" THEN last.n + 1 ELSE 1,
                  !.out = IF ensure_csv_ready(fs, CSV_PATH, env.deny).raised
                          THEN "raised" ELSE "ok"]
    /\ evLeft' = evLeft - 1
    /\ UNCHANGED job
    /\ FrameStore

\* src 179: the migration opens its temp file
StoreBeginMigrate ==
    /\ job.kind = "idle" /\ evLeft > 0
    /\ Exists(fs, CSV_PATH) /\ Live # <<>> /\ Head(Live) # CSV_FIELDS
    /\ job' = [kind |-> "migrate", phase |-> "tmp", old |-> Live,
               new |-> MigratedContent(Live), written |-> 0]
    /\ fs' = WriteFile(fs, TempFile, <<>>)
    /\ last' = [NoLast EXCEPT !.op = "begin", !.before = Live,
                  !.n = IF last.op = "migrate" THEN last.n + 1 ELSE 1]
    /\ evLeft' = evLeft - 1
    /\ UNCHANGED CSV_PATH
    /\ FrameStore

\* src 226-236: delete_last_row_for_user finds its row and opens its temp file;
\* with no row of the user it returns None and writes nothing.
StoreBeginDelete(u) ==
    /\ job.kind = "idle" /\ evLeft > 0
    /\ Ready
    /\ LET rows == DictReader(Live)
           i == LastIndexOfUser(rows, IntToStr(u))
       IN IF i = 0
          THEN /\ last' = [NoLast EXCEPT !.op = "delete", !.uid = u, !.before = Live]
               /\ UNCHANGED <<fs, job>>
          ELSE /\ job' = [kind |-> "delete", phase |-> "tmp", old |-> Live,
                          new |-> <<CSV_FIELDS>> \o WrittenDicts(RemoveAt(rows, i)),
                          written |-> 0]
               /\ fs' = WriteFile(fs, TempFile, <<>>)
               /\ last' = [NoLast EXCEPT !.op = "begin", !.uid = u, !.before = Live,
                             !.found = TRUE, !.removed = rows[i]]
    /\ evLeft' = evLeft - 1
    /\ UNCHANGED CSV_PATH
    /\ FrameStore

\* src 182-194, 239-243: one writerow into the temp file
TmpWriteRow ==
    /\ job.kind # "idle" /\ job.phase = "tmp" /\ job.written < Len(job.new)
    /\ fs' = WriteFile(fs, TempFile, Append(fs[TempFile], job.new[job.written + 1]))
    /\ job' = [job EXCEPT !.written = job.written + 1]
    /\ UNCHANGED <<CSV_PATH, last, evLeft>>
    /\ FrameStore

Finished(op) == [last EXCEPT !.op = op]

\* src 195, 244: shutil.move when os.rename succeeds, the temp directory and
\* the event file being on one file system
MoveRename ==
    /\ job.kind # "idle" /\ job.phase = "tmp" /\ job.written = Len(job.new)
    /\ env.sameFs
    /\ fs' = RemoveFile(WriteFile(fs, CSV_PATH, fs[TempFile]), TempFile)
    /\ job' = IdleJob
    /\ last' = Finished(job.kind)
    /\ UNCHANGED <<CSV_PATH, evLeft>>
    /\ FrameStore

\* src 195, 244: shutil.move when os.rename fails across file systems: it
\* copies; the copy opens the destination for writing, which empties it
MoveCopyOpen ==
    /\ job.kind # "idle" /\ job.phase = "tmp" /\ job.written = Len(job.new)
    /\ ~env.sameFs
    /\ fs' = WriteFile(fs, CSV_PATH, <<>>)
    /\ job' = [job EXCEPT !.phase = "copy", !.written = 0]
    /\ UNCHANGED <<CSV_PATH, last, evLeft>>
    /\ FrameStore

\* the copy of shutil.move, one row at a time, then the unlink of the temp file
MoveCopyRow ==
    /\ job.kind # "idle" /\ job.phase = "copy"
    /\ IF job.written < Len(job.new)
       THEN /\ fs' = WriteFile(fs, CSV_PATH, Append(Live, fs[TempFile][job.written + 1]))
            /\ job' = [job EXCEPT !.written = job.written + 1]
            /\ UNCHANGED last
       ELSE /\ fs' = RemoveFile(fs, TempFile)
            /\ job' = IdleJob
            /\ last' = Finished(job.kind)
    /\ UNCHANGED <<CSV_PATH, evLeft>>
    /\ FrameStore

\* The process is interrupted during a rewrite; the files stay as they are.
Crash ==
    /\ job.kind # "idle"
    /\ job' = IdleJob
    /\ last' = [last EXCEPT !.op = "crash", !.n = IF job.phase = "tmp" THEN 0 ELSE 1]
    /\ UNCHANGED <<fs, CSV_PATH, evLeft>>
    /\ FrameStore

NextStore ==
    \/ \E u \in Users, k \in 1..2 : StoreAppend(u, k)
    \/ StoreEnsureInPlace
    \/ StoreBeginMigrate
    \/ \E u \in Users : StoreBeginDelete(u)
    \/ TmpWriteRow
    \/ MoveRename
    \/ MoveCopyOpen
    \/ MoveCopyRow
    \/ Crash

SpecStore == InitStore /\ [][NextStore]_vars

----------------------------------------------------------------------------
(* Claims about the record store, checked under SpecStore.                 *)

NCols == Len(CSV_FIELDS)

\* the data rows of the file before the last operation, and its user as a str
BeforeRows == Tail(last.before)
LastUidStr == IntToStr(last.uid)
RowsOfLastUser == {i \in 1..Len(BeforeRows) : BeforeRows[i][2] = LastUidStr}
BuiltByAppends == \A i \in 1..Len(BeforeRows) : Len(BeforeRows[i]) = NCols

\* C4: on a store built by appends in which user U has a row, a completed
\* delete_last_row_for_user(U) has removed exactly the highest-index row of U
\* and returned it; the other rows are what they were, in the same order.
C4_UndoRemovesLastRowOfUser ==
    (last.op = "delete" /\ BuiltByAppends /\ RowsOfLastUser # {}) =>
        LET m == CHOOSE i \in RowsOfLastUser : \A j \in RowsOfLastUser : j <= i
        IN /\ last.found
           /\ \A c \in 1..NCols : last.removed[CSV_FIELDS[c]] = BeforeRows[m][c]
           /\ DOMAIN last.removed = {CSV_FIELDS[c] : c \in 1..NCols}
           /\ Len(Live) = Len(last.before) - 1
           /\ Head(Live) = CSV_FIELDS
           /\ \A i \in 1..(m - 1) : Live[i + 1] = BeforeRows[i]
           /\ \A i \in (m + 1)..Len(BeforeRows) : Live[i] = BeforeRows[i]

\* C4 witness: U had rows 1 and 2, another user row 3; the delete has completed.
C4_Witness ==
    /\ last.op = "delete" /\ last.found /\ BuiltByAppends
    /\ Len(BeforeRows) = 3
    /\ BeforeRows[1][2] = LastUidStr /\ BeforeRows[2][2] = LastUidStr
    /\ BeforeRows[3][2] # LastUidStr
    /\ Len(Live) = 3

\* C6: during a rewrite (migration or delete-last) the live event file is the
\* complete old content or the complete new content, and it is the old content
\* for as long as the move has not started, also after an interruption there.
C6_LiveFileOldOrNew ==
    /\ job.kind # "idle" => Live \in {job.old, job.new}
    /\ (job.kind # "idle" /\ job.phase = "tmp") => Live = job.old
    /\ (last.op = "crash" /\ last.n = 0) => Live = last.before

\* C7: a migration (ensure_csv_ready) of a file whose header is canonical
\* leaves the file as it was, and so does a migration that follows a migration.
C7_MigrationIdempotent ==
    (last.op = "migrate" /\ job.kind = "idle") =>
        /\ (last.before # <<>> /\ Head(last.before) = CSV_FIELDS) => Live = last.before
        /\ last.n >= 2 => Live = last.before

\* C7 witness: a legacy file (no chat_id column) was migrated, then migrated again.
C7_Witness ==
    /\ last.op = "migrate" /\ job.kind = "idle" /\ last.n = 2
    /\ Len(Live) >= 2 /\ Live[2][4] = <<>>
    /\ Live = last.before

----------------------------------------------------------------------------
(* The dialogue controller: src 127-135, 382-603, 710-809, 882-901,        *)
(* 1034-1081.  One inbound update is handled to completion by the first    *)
(* registered handler whose filter accepts it (the decorators, in source   *)
(* order); an update no filter accepts is dropped.                         *)

NoStep == "-"       \* STATE.get(uid, {}).get("step") is None

\* (variant) one record for all users
Sess_shared(u) == Get(State, 1, EmptyDict)

Sess(u) == Get(State, u, EmptyDict)
StepOf(u) == Get(Sess(u), "step", NoStep)

\* telebot's command of a text message: the word after a leading "/", up to
\* the first blank or "@"; <<>> when the text is no command.
RECURSIVE UpToBlank(_)
UpToBlank(s) ==
    IF s = <<>> \/ Head(s) = " " \/ Head(s) = "@" THEN <<>>
    ELSE <<Head(s)>> \o UpToBlank(Tail(s))

CommandOf(text) ==
    IF text # <<>> /\ Head(text) = "/" THEN UpToBlank(Tail(text)) ELSE <<>>

\* The message handlers in registration order (src 359, 385, 433, 472, 481,
\* 494, 590, 713, 769, 785, 812, 816, 841, 858, 870, 882, 952, 957, 963).
MessageHandler(u, text) ==
    LET cmd == CommandOf(text)
        step == StepOf(u)
    IN IF cmd \in {<<"start">>, <<"help">>} THEN "handle_help"
       ELSE IF cmd = <<"log">> THEN "start_log"
       ELSE IF step = "event_desc" THEN "step_event_desc"
       ELSE IF step = "diss_reason" THEN "step_diss_reason"
       ELSE IF step = "react_desc" THEN "step_react_desc"
       ELSE IF step = "react_reason" THEN "step_react_reason"
       ELSE IF cmd = <<"undo">> THEN "handle_undo"
       ELSE IF cmd \in {<<"meditate">>, <<"meditation">>} THEN "start_meditate"
       ELSE IF step = "med_custom_duration" THEN "med_custom_duration"
       ELSE IF step = "med_note" THEN "med_note_step"
       ELSE IF cmd \in {<<"meds_today">>, <<"med_summarize">>} THEN "handle_meds_today"
       ELSE IF cmd = <<"export">> THEN "handle_export"
       ELSE IF cmd \in {<<"export_meds">>, <<"export_meditations">>}
            THEN "handle_export_meds"
       ELSE IF cmd = <<"subscribe_daily">> THEN "handle_subscribe_daily"
       ELSE IF cmd = <<"unsubscribe">> THEN "handle_unsubscribe"
       ELSE IF (text = <<>> \/ Head(text) # "/") /\ step = NoStep
            THEN "handle_non_command_text"
       ELSE IF cmd = <<"today">> THEN "handle_today"
       ELSE IF cmd = <<"weekly">> THEN "handle_weekly"
       ELSE IF cmd = <<"monthly">> THEN "handle_monthly"
       ELSE "none"

\* The callback handlers in registration order (src 396, 446, 514, 729, 1034).
\* Callback data is its prefix up to ":" followed by the rest.
CallbackHandler(data) ==
    LET h == Head(data)
    IN IF h \in {"use_last", "cancel", "tag:"} THEN "on_tag_or_use_last"
       ELSE IF h \in {"diss:", "react:"} THEN "on_score_callback"
       ELSE IF h \in {"back", "confirm"} THEN "on_confirm_flow"
       ELSE IF h \in {"med_dur:", "med_type:", "med_custom", "med_cancel"}
            THEN "on_med_callback"
       ELSE IF h \in {"ai_reflect_again", "ai_reflect_save", "ai_reflect_close"}
            THEN "on_ai_reflect_actions"
       ELSE "none"

\* The keyboard under the last prompt of a user's step (src 265-286, 692-708,
\* 990-997), and whether a button press comes from another, earlier message.
KeyboardOf(u) ==
    LET step == StepOf(u)
    IN IF step = "tag" THEN {"tag:", "use_last", "cancel"}
       ELSE IF step = "diss_score" THEN {"diss:", "cancel"}
       ELSE IF step = "react_score" THEN {"react:", "cancel"}
       ELSE IF step = "confirm" THEN {"back", "confirm", "cancel"}
       ELSE IF step = "med_duration" THEN {"med_dur:", "med_custom", "med_cancel"}
       ELSE IF step = "med_type" THEN {"med_type:", "med_cancel"}
       ELSE IF step = NoStep /\ "last_reflection_text" \in DOMAIN Sess(u)
            THEN {"ai_reflect_again", "ai_reflect_save", "ai_reflect_close"}
       ELSE {}

IsStale(u, data) == Head(data) \notin KeyboardOf(u)

EventRowCount == IF Exists(fs, CSV_PATH) THEN Len(Live) ELSE 0

Log(op, u, data, out) ==
    [NoLast EXCEPT !.op = op, !.uid = u, !.data = data, !.pre = StepOf(u),
                   !.out = out, !.n = EventRowCount]

\* The notes on a log flow: rows0, the length of the event file when /log was
\* handled; back, whether "back" was pressed since the tag was chosen; snap,
\* the session when it was pressed; score and reason, the reaction score
\* chosen and the reason typed since then.
NewFlow(rows0) ==
    [rows0 |-> rows0, back |-> FALSE, snap |-> EmptyDict, score |-> 0, reason |-> None]

Note(u, field, v) == IF u \in DOMAIN hist THEN [hist EXCEPT ![u][field] = v] ELSE hist

\* what every handled message leaves alone, and the count of updates
MsgFrame ==
    /\ evLeft > 0
    /\ evLeft' = evLeft - 1
    /\ UNCHANGED <<job, staleLeft, gen, env, msgs>>

\* the same for a button press, with the count of presses of earlier buttons
PressFrame(stale) ==
    /\ evLeft > 0
    /\ evLeft' = evLeft - 1
    /\ stale => staleLeft > 0
    /\ staleLeft' = IF stale THEN staleLeft - 1 ELSE staleLeft
    /\ UNCHANGED <<job, gen, env>>

CbFrame(u, data) == PressFrame(IsStale(u, data))

\* The reflection messages in the chat of u (src 581, 1077), each with its
\* text and whether it still has its keyboard; the k-th is an earlier message
\* when it is not the last thing the bot prompted the user with.
Shown(u) == Get(msgs, u, <<>>)

Message(text) == [text |-> text, kb |-> TRUE]

IsEarlier(u, k) ==
    ~(k = Len(Shown(u)) /\ StepOf(u) = NoStep /\ "last_reflection_text" \in DOMAIN Sess(u))

NoFiles == UNCHANGED <<fs, CSV_PATH, MEDITATION_CSV_PATH>>

\* (variant) the session is left in place
cancel_flow_keep(op, u, data) ==
    /\ UNCHANGED <<State, hist>>
    /\ last' = Log(op, u, data, "cancelled")
    /\ NoFiles

\* src 127-135
cancel_flow(op, u, data) ==
    /\ State' = Pop(State, u)
    /\ UNCHANGED hist
    /\ last' = Log(op, u, data, "cancelled")
    /\ NoFiles

\* src 359-380
handle_help(u, text) ==
    /\ MessageHandler(u, text) = "handle_help"
    /\ MsgFrame
    /\ last' = Log("handle_help", u, text, "help")
    /\ UNCHANGED <<State, hist>>
    /\ NoFiles

\* src 385-394
start_log(u, text) ==
    /\ MessageHandler(u, text) = "start_log"
    /\ MsgFrame
    /\ LET e == ensure_csv_ready(fs, CSV_PATH, env.deny)
       IN /\ fs' = e.fs
          /\ CSV_PATH' = e.path
          /\ State' = IF e.raised THEN State ELSE Put(State, u, [step |-> "tag"])
          /\ hist' = IF e.raised THEN hist ELSE Put(hist, u, NewFlow(Len(e.fs[e.path])))
          /\ last' = Log("start_log", u, text, IF e.raised THEN "raised" ELSE "kb_tags")
    /\ UNCHANGED MEDITATION_CSV_PATH

\* src 396-431
on_tag_or_use_last(u, data) ==
    /\ CallbackHandler(data) = "on_tag_or_use_last"
    /\ CbFrame(u, data)
    /\ UNCHANGED msgs
    /\ IF Head(data) = "cancel" THEN cancel_flow("on_tag_or_use_last", u, data)
       ELSE IF Head(data) = "use_last"
       THEN LET l == load_last_row_for_user(fs, CSV_PATH, env.deny, IntToStr(u))
            IN /\ fs' = l.fs
               /\ CSV_PATH' = l.path
               /\ UNCHANGED MEDITATION_CSV_PATH
               /\ IF l.raised \/ ~l.found
                  THEN /\ UNCHANGED <<State, hist>>
                       /\ last' = Log("on_tag_or_use_last", u, data,
                                      IF l.raised THEN "raised" ELSE "no_last")
                  ELSE /\ State' = Put(State, u,
                                [step |-> "diss_score",
                                 tag |-> Get(l.row, "tag", <<>>),
                                 event_desc |-> Get(l.row, "event_desc", <<>>)])
                       /\ hist' = Note(u, "back", FALSE)
                       /\ last' = Log("on_tag_or_use_last", u, data, "kb_diss")
       ELSE /\ State' = Put(State, u, [step |-> "event_desc", tag |-> Tail(data)])
            /\ hist' = Note(u, "back", FALSE)
            /\ last' = Log("on_tag_or_use_last", u, data, "ask_event")
            /\ NoFiles

\* The free-text steps of the log flow (src 433-444, 472-479, 481-492): the
\* cancel keyword cancels, any other text is stored under `key` and the step
\* moves on.
TextStep(op, u, text, key, next, out) ==
    /\ MsgFrame
    /\ IF Strip(text) = CANCEL_TEXT THEN cancel_flow(op, u, text)
       ELSE /\ State' = Put(State, u, Put(Put(State[u], key, Strip(text)), "step", next))
            /\ hist' = IF key = "reaction_reason" THEN Note(u, "reason", text) ELSE hist
            /\ last' = Log(op, u, text, out)
            /\ NoFiles

\* src 433-444
step_event_desc(u, text) ==
    /\ MessageHandler(u, text) = "step_event_desc"
    /\ TextStep("step_event_desc", u, text, "event_desc", "diss_score", "kb_diss")

\* src 472-479
step_diss_reason(u, text) ==
    /\ MessageHandler(u, text) = "step_diss_reason"
    /\ TextStep("step_diss_reason", u, text, "dissatisfaction_reason", "react_desc",
                "ask_react")

\* src 481-492
step_react_desc(u, text) ==
    /\ MessageHandler(u, text) = "step_react_desc"
    /\ TextStep("step_react_desc", u, text, "reaction_desc", "react_score", "kb_react")

\* src 494-512
step_react_reason(u, text) ==
    /\ MessageHandler(u, text) = "step_react_reason"
    /\ TextStep("step_react_reason", u, text, "reaction_reason", "confirm", "kb_confirm")

\* int(val) of src 453: the digits after the prefix
ScoreOf(data) == DigitsVal(Tail(data), 0)

\* src 446-470; "cancel" never reaches this handler, on_tag_or_use_last is
\* registered before it and accepts it.
on_score_callback(u, data) ==
    /\ CallbackHandler(data) = "on_score_callback"
    /\ CbFrame(u, data)
    /\ UNCHANGED msgs
    /\ LET d == SetDefault(State, u, EmptyDict)[u]
           key == IF Head(data) = "diss:" THEN "dissatisfaction_score"
                  ELSE "reaction_score"
           next == IF Head(data) = "diss:" THEN "diss_reason" ELSE "react_reason"
       IN /\ State' = Put(State, u, Put(Put(d, key, ScoreOf(data)), "step", next))
          /\ hist' = IF Head(data) = "react:" THEN Note(u, "score", ScoreOf(data))
                     ELSE hist
          /\ last' = Log("on_score_callback", u, data,
                         IF Head(data) = "diss:" THEN "ask_diss_reason"
                         ELSE "ask_react_reason")
    /\ NoFiles

\* src 557-563
ReflectionInput(row) ==
    [event |-> row["event_desc"], diss_score |-> row["dissatisfaction_score"],
     diss_reason |-> row["dissatisfaction_reason"], react_desc |-> row["reaction_desc"],
     react_score |-> row["reaction_score"]]

\* src 529-541: the row built from the session dict `data`
ConfirmRow(u, data, day) ==
    [timestamp_iso |-> Isoformat(day), user_id |-> u, username |-> username_from(u),
     chat_id |-> ChatOf(u),
     tag |-> Get(data, "tag", <<>>),
     event_desc |-> Get(data, "event_desc", <<>>),
     dissatisfaction_score |-> Get(data, "dissatisfaction_score", 0),
     dissatisfaction_reason |-> Get(data, "dissatisfaction_reason", <<>>),
     reaction_desc |-> Get(data, "reaction_desc", <<>>),
     reaction_score |-> Get(data, "reaction_score", 0),
     reaction_reason |-> Get(data, "reaction_reason", <<>>)]

\* The day of now_local() (src 117-118) during a behaviour of the dialogue.
Today == 1

\* What the backend does when a dialogue asks for a reflection.
DialogueOuts == {[k \in 1..Attempts |-> [kind |-> "text", text |-> t]] :
                    t \in {<<"be", "calm">>, <<>>}}

\* (variant) "back" starts the session afresh at the reaction score
BackSession_fresh(d) == [step |-> "react_score"]

\* src 520
BackSession(d) == Put(d, "step", "react_score")

\* src 514-584.  "back" with no session raises KeyError at src 520 and the
\* handler ends there.
on_confirm_flow(u, data) ==
    /\ CallbackHandler(data) = "on_confirm_flow"
    /\ CbFrame(u, data)
    /\ UNCHANGED MEDITATION_CSV_PATH
    /\ IF Head(data) = "back"
       THEN /\ State' = IF u \in DOMAIN State
                        THEN Put(State, u, BackSession(State[u]))
                        ELSE State
            /\ hist' = IF u \in DOMAIN State /\ u \in DOMAIN hist
                       THEN [hist EXCEPT ![u].back = TRUE, ![u].snap = State[u],
                                         ![u].score = 0, ![u].reason = None]
                       ELSE hist
            /\ last' = Log("on_confirm_flow", u, data,
                           IF u \in DOMAIN State THEN "kb_react" ELSE "raised")
            /\ UNCHANGED <<fs, CSV_PATH, msgs>>
       ELSE LET row == ConfirmRow(u, Sess(u), Today)
                w == save_row(fs, CSV_PATH, env.deny, row)
            IN /\ fs' = w.fs
               /\ CSV_PATH' = w.path
               /\ UNCHANGED hist
               /\ IF w.raised
                  THEN /\ State' = State
                       /\ UNCHANGED msgs
                       /\ last' = Log("on_confirm_flow", u, data, "raised")
                  ELSE \E outs \in DialogueOuts :
                       /\ State' = Put(State, u,
                            [last_reflection_input |-> ReflectionInput(row),
                             last_reflection_text |->
                                gemini_reflection(env.client, outs).text])
                       /\ msgs' = Put(msgs, u, Append(Shown(u),
                                      Message(gemini_reflection(env.client, outs).text)))
                       /\ last' = Log("on_confirm_flow", u, data, "saved")

\* (variant) undo also drops the sender's session
handle_undo_reset(u, text) ==
    /\ MessageHandler(u, text) = "handle_undo"
    /\ MsgFrame
    /\ LET e == ensure_csv_ready(fs, CSV_PATH, env.deny)
           d == delete_last_row_for_user(e.fs, e.path, env.deny, IntToStr(u))
       IN IF e.raised
          THEN /\ fs' = e.fs
               /\ CSV_PATH' = e.path
               /\ last' = Log("handle_undo", u, text, "raised")
          ELSE /\ fs' = d.fs
               /\ CSV_PATH' = d.path
               /\ last' = [Log("handle_undo", u, text,
                               IF d.raised THEN "raised"
                               ELSE IF d.found THEN "removed" ELSE "not_found")
                           EXCEPT !.found = d.found, !.removed = d.removed]
    /\ State' = Pop(State, u)
    /\ UNCHANGED <<hist, MEDITATION_CSV_PATH>>

\* src 590-603
handle_undo(u, text) ==
    /\ MessageHandler(u, text) = "handle_undo"
    /\ MsgFrame
    /\ LET e == ensure_csv_ready(fs, CSV_PATH, env.deny)
           d == delete_last_row_for_user(e.fs, e.path, env.deny, IntToStr(u))
       IN IF e.raised
          THEN /\ fs' = e.fs
               /\ CSV_PATH' = e.path
               /\ last' = Log("handle_undo", u, text, "raised")
          ELSE /\ fs' = d.fs
               /\ CSV_PATH' = d.path
               /\ last' = [Log("handle_undo", u, text,
                               IF d.raised THEN "raised"
                               ELSE IF d.found THEN "removed" ELSE "not_found")
                           EXCEPT !.found = d.found, !.removed = d.removed]
    /\ UNCHANGED <<State, hist, MEDITATION_CSV_PATH>>

\* src 612
MED_CSV_FIELDS ==
    <<"timestamp_iso", "user_id", "username", "chat_id", "duration_min", "type", "note">>

MedHomePath == "med_home"           \* src 624
MedTmpPidPath == "med_tmp_pid"

RECURSIVE InitMedFallbacks(_, _, _, _)
InitMedFallbacks(f, path, deny, cands) ==
    IF cands = <<>> THEN [fs |-> f, path |-> path, raised |-> TRUE]
    ELSE IF Head(cands) \in deny
         THEN InitMedFallbacks(f, path, deny, Tail(cands))
         ELSE [fs |-> WriteFile(f, Head(cands), <<MED_CSV_FIELDS>>),
               path |-> Head(cands), raised |-> FALSE]

\* src 614-635
init_med_csv_if_needed(f, path, deny) ==
    IF Exists(f, path) THEN [fs |-> f, path |-> path, raised |-> FALSE]
    ELSE IF path \notin deny
         THEN [fs |-> WriteFile(f, path, <<MED_CSV_FIELDS>>), path |-> path,
               raised |-> FALSE]
         ELSE InitMedFallbacks(f, path, deny, <<MedHomePath, MedTmpPidPath>>)

\* src 637-638
ensure_med_csv_ready(f, path, deny) == init_med_csv_if_needed(f, path, deny)

\* src 640-648
save_med_row(f, path, deny, row) ==
    LET e == ensure_med_csv_ready(f, path, deny)
    IN IF e.raised THEN e
       ELSE [fs |-> WriteFile(e.fs, e.path,
                        Append(e.fs[e.path],
                               << row.timestamp_iso, IntToStr(row.user_id), row.username,
                                  IntToStr(row.chat_id), IntToStr(row.duration_min),
                                  row.type, row.note >>)),
             path |-> e.path, raised |-> FALSE]

MedRowCount ==
    IF Exists(fs, MEDITATION_CSV_PATH) THEN Len(fs[MEDITATION_CSV_PATH]) ELSE 0

\* src 713-727
start_meditate(u, text) ==
    /\ MessageHandler(u, text) = "start_meditate"
    /\ MsgFrame
    /\ LET e == ensure_med_csv_ready(fs, MEDITATION_CSV_PATH, env.deny)
       IN /\ fs' = e.fs
          /\ MEDITATION_CSV_PATH' = e.path
          /\ State' = IF e.raised THEN State
                      ELSE Put(State, u, [step |-> "med_duration"])
          /\ hist' = IF e.raised THEN hist ELSE Pop(hist, u)
          /\ last' = Log("start_meditate", u, text,
                         IF e.raised THEN "raised" ELSE "kb_med_durations")
    /\ UNCHANGED CSV_PATH

\* src 729-767; the data of a button is well formed, int() of src 747 succeeds
on_med_callback(u, data) ==
    /\ CallbackHandler(data) = "on_med_callback"
    /\ CbFrame(u, data)
    /\ UNCHANGED msgs
    /\ IF Head(data) = "med_cancel" THEN cancel_flow("on_med_callback", u, data)
       ELSE /\ NoFiles
            /\ UNCHANGED hist
            /\ LET d == SetDefault(State, u, EmptyDict)[u]
               IN IF Head(data) = "med_custom"
                  THEN /\ State' = Put(State, u, Put(d, "step", "med_custom_duration"))
                       /\ last' = Log("on_med_callback", u, data, "ask_minutes")
                  ELSE IF Head(data) = "med_dur:"
                  THEN /\ State' = Put(State, u,
                                Put(Put(d, "duration_min", DigitsVal(Tail(data), 0)),
                                    "step", "med_type"))
                       /\ last' = Log("on_med_callback", u, data, "kb_med_type")
                  ELSE /\ State' = Put(State, u,
                                Put(Put(d, "type", Tail(data)), "step", "med_note"))
                       /\ last' = Log("on_med_callback", u, data, "ask_note")

\* (variant) int(text): a decimal point is not read
IntOfFloat_nodot(text) ==
    LET t == Strip(text)
        neg == t # <<>> /\ Head(t) = "-"
        body == IF neg THEN Tail(t) ELSE t
    IN IF AllDigits(body)
       THEN [ok |-> TRUE, val |-> IF neg THEN 0 - DigitsVal(body, 0) ELSE DigitsVal(body, 0)]
       ELSE [ok |-> FALSE, val |-> 0]

\* int(float(text)) of src 775, 907: ok = FALSE is the ValueError.  float()
\* skips blanks around the number; a decimal number is cut to its whole part.
IntOfFloat(text) ==
    LET t == Strip(text)
        neg == t # <<>> /\ Head(t) = "-"
        body == IF neg THEN Tail(t) ELSE t
        dot == IF \E i \in 1..Len(body) : body[i] = "."
               THEN CHOOSE i \in 1..Len(body) : body[i] = "." /\
                        \A j \in 1..(i - 1) : body[j] # "."
               ELSE Len(body) + 1
        whole == SubSeq(body, 1, dot - 1)
        frac == SubSeq(body, dot + 1, Len(body))
        ok == /\ \A i \in 1..Len(whole) : IsDigit(whole[i])
              /\ \A i \in 1..Len(frac) : IsDigit(frac[i])
              /\ whole \o frac # <<>>
    IN IF ok THEN [ok |-> TRUE,
                   val |-> IF neg THEN 0 - DigitsVal(whole, 0) ELSE DigitsVal(whole, 0)]
       ELSE [ok |-> FALSE, val |-> 0]

\* src 769-783
med_custom_duration(u, text) ==
    /\ MessageHandler(u, text) = "med_custom_duration"
    /\ MsgFrame
    /\ LET t == Strip(text)
           p == IntOfFloat(t)
       IN IF t = CANCEL_TEXT THEN cancel_flow("med_custom_duration", u, text)
          ELSE /\ NoFiles
               /\ UNCHANGED hist
               /\ IF ~p.ok \/ p.val <= 0
                  THEN /\ State' = State
                       /\ last' = Log("med_custom_duration", u, text, "reprompt")
                  ELSE /\ State' = Put(State, u,
                                Put(Put(State[u], "duration_min", p.val),
                                    "step", "med_type"))
                       /\ last' = Log("med_custom_duration", u, text, "kb_med_type")

\* (variant) the note is kept as typed
NoteOf_asTyped(text) == Strip(text)

\* src 790: the note of a message, a lone "-" standing for no note
NoteOf(text) == IF Strip(text) # <<"-">> THEN Strip(text) ELSE <<>>

\* src 785-809
med_note_step(u, text) ==
    /\ MessageHandler(u, text) = "med_note_step"
    /\ MsgFrame
    /\ IF Strip(text) = CANCEL_TEXT THEN cancel_flow("med_note_step", u, text)
       ELSE LET data == Put(State[u], "note", NoteOf(text))
                row == [timestamp_iso |-> Isoformat(Today), user_id |-> u,
                        username |-> username_from(u), chat_id |-> ChatOf(u),
                        duration_min |-> Get(data, "duration_min", 0),
                        type |-> Get(data, "type", <<>>),
                        note |-> Get(data, "note", <<>>)]
                w == save_med_row(fs, MEDITATION_CSV_PATH, env.deny, row)
            IN /\ fs' = w.fs
               /\ MEDITATION_CSV_PATH' = w.path
               /\ UNCHANGED CSV_PATH
               /\ State' = IF w.raised THEN Put(State, u, data) ELSE Pop(State, u)
               /\ UNCHANGED hist
               /\ last' = Log("med_note_step", u, text,
                              IF w.raised THEN "raised" ELSE "saved")

\* The summary engine: src 903-987.  A date is a day number.

\* datetime.strptime(s, "%Y-%m-%dT%H:%M:%S") (src 979): it also reads a
\* timestamp written without leading zeros, here <<"d", digits>>.
Strptime(s) ==
    IF Len(s) >= 2 /\ Head(s) \in {"D", "d"} /\ AllDigits(Tail(s))
    THEN [ok |-> TRUE, day |-> DigitsVal(Tail(s), 0)]
    ELSE [ok |-> FALSE, day |-> 0]

\* (variant) the rows of every chat are taken
InPeriod_anychat(row, chat_id, start, end_inclusive) ==
    LET ts_str == Get(row, "timestamp_iso", <<>>)
        ts == IF FromIso(ts_str).ok THEN FromIso(ts_str) ELSE Strptime(ts_str)
    IN ts.ok /\ start <= ts.day /\ ts.day <= end_inclusive

\* src 973-984 for one row: whether the row is of the chat and of the period
InPeriod(row, chat_id, start, end_inclusive) ==
    LET c == Get(row, "chat_id", <<>>)
        ts_str == Get(row, "timestamp_iso", <<>>)
        ts == IF FromIso(ts_str).ok THEN FromIso(ts_str) ELSE Strptime(ts_str)
    IN /\ IntToStr(chat_id) = c
       /\ ts.ok
       /\ start <= ts.day /\ ts.day <= end_inclusive

\* src 969-987, on the dicts load_rows returned
event_rows_for_chat_between(rows, chat_id, start, end_inclusive) ==
    SelectSeq(rows, LAMBDA r : InPeriod(r, chat_id, start, end_inclusive))

RECURSIVE SumSeq(_)
SumSeq(xs) == IF xs = <<>> THEN 0 ELSE Head(xs) + SumSeq(Tail(xs))

\* round(num / den) to the nearest integer, a tie to the even one, as the
\* "f" formats of Python do for a value a float holds exactly; den # 0
RoundHalfEven(num, den) ==
    LET n == IF den < 0 THEN 0 - num ELSE num
        d == IF den < 0 THEN 0 - den ELSE den
        q == n \div d
        r == n - q * d
    IN IF 2 * r < d THEN q
       ELSE IF 2 * r > d THEN q + 1
       ELSE IF q % 2 = 0 THEN q ELSE q + 1

\* The scores of src 907-908 under column `key`: the rows whose cell is not
\* "-", each through int(float(...)); bad = TRUE: one of them raises.
ScoreVals(rows, key) ==
    LET used == SelectSeq(rows, LAMBDA r : Get(r, key, <<"0">>) # <<"-">>)
        parsed == [i \in 1..Len(used) |-> IntOfFloat(Get(used[i], key, <<"0">>))]
    IN [bad |-> \E i \in 1..Len(used) : ~parsed[i].ok,
        vals |-> [i \in 1..Len(used) |-> parsed[i].val]]

\* Counter(tags).most_common(3) (src 912): by falling count, tags of one
\* count in the order of their first occurrence
most_common(tags, n) ==
    LET T == {tags[i] : i \in 1..Len(tags)}
        cnt(t) == Cardinality({i \in 1..Len(tags) : tags[i] = t})
        first(t) == CHOOSE i \in 1..Len(tags) :
                        tags[i] = t /\ \A j \in 1..(i - 1) : tags[j] # t
        before(a, b) == cnt(a) > cnt(b) \/ (cnt(a) = cnt(b) /\ first(a) < first(b))
        rank(t) == Cardinality({x \in T : before(x, t)}) + 1
        m == IF Cardinality(T) < n THEN Cardinality(T) ELSE n
    IN [k \in 1..m |-> LET t == CHOOSE x \in T : rank(x) = k IN <<t, cnt(t)>>]

FirstN(xs, n) == SubSeq(xs, 1, IF Len(xs) < n THEN Len(xs) ELSE n)

\* src 909-914: the summary of rows that are not empty, from their scores.
\* An average is kept as the pair sum, number of scores.
SummaryOfScores(rows, diss, react) ==
    [raised |-> diss.bad \/ react.bad,
     count |-> Len(rows),
     diss_sum |-> SumSeq(diss.vals), diss_n |-> Len(diss.vals),
     react_sum |-> SumSeq(react.vals), react_n |-> Len(react.vals),
     top_tags |-> most_common([i \in 1..Len(rows) |-> Get(rows[i], "tag", <<"-">>)], 3),
     samples |-> FirstN([i \in 1..Len(rows) |-> Get(rows[i], "event_desc", <<"-">>)], 3)]

\* src 903-914
_compute_summary_from_rows(rows) ==
    IF rows = <<>>
    THEN [raised |-> FALSE, count |-> 0, diss_sum |-> 0, diss_n |-> 0,
          react_sum |-> 0, react_n |-> 0, top_tags |-> <<>>, samples |-> <<>>]
    ELSE SummaryOfScores(rows, ScoreVals(rows, "dissatisfaction_score"),
                         ScoreVals(rows, "reaction_score"))

\* f"{avg:.1f}" (src 944-945): the average in tenths; 0.0 with no score
Tenths(sum, n) == IF n = 0 THEN 0 ELSE RoundHalfEven(10 * sum, n)

Placeholder == <<"--">>      \* src 929, the dash

\* (variant) a previous value of zero gives 0%
pct_change_zero(cs, cn, ps, pn) ==
    IF pn = 0 \/ ps = 0 THEN <<"0", "%">>
    ELSE IF cn = 0 THEN IntToStr(0 - 100) \o <<"%">>
    ELSE IntToStr(RoundHalfEven((cs * pn - ps * cn) * 100, ps * cn)) \o <<"%">>

\* pct_change (src 926-932) of two averages given as sum, number
pct_change(cs, cn, ps, pn) ==
    IF pn = 0 \/ ps = 0 THEN Placeholder
    ELSE IF cn = 0 THEN IntToStr(0 - 100) \o <<"%">>
    ELSE LET num == (cs * pn - ps * cn) * 100
             den == ps * cn
             r == RoundHalfEven(num, den)
         IN IF r = 0 /\ ((num < 0 /\ den > 0) \/ (num > 0 /\ den < 0))
            THEN <<"-", "0", "%">>
            ELSE IntToStr(r) \o <<"%">>

\* (variant) the message that the period has no record is kept for when the
\* period before has none either
SummaryReport_both(head, cur, prev) ==
    IF cur.raised \/ prev.raised THEN [raised |-> TRUE, none |-> FALSE, head |-> head]
    ELSE IF cur.count = 0 /\ prev.count = 0
         THEN [raised |-> FALSE, none |-> TRUE, head |-> head]
    ELSE [raised |-> FALSE, none |-> FALSE, head |-> head,
          count |-> cur.count, p_count |-> prev.count]

\* src 934-950: the figures of the report from the summaries of the period
\* and of the period before it; none = TRUE is the message that the period
\* has no record.
SummaryReport(head, cur, prev) ==
    IF cur.raised \/ prev.raised THEN [raised |-> TRUE, none |-> FALSE, head |-> head]
    ELSE IF cur.count = 0 THEN [raised |-> FALSE, none |-> TRUE, head |-> head]
    ELSE [raised |-> FALSE, none |-> FALSE, head |-> head,
          count |-> cur.count, p_count |-> prev.count,
          d_count |-> pct_change(cur.count, 1, prev.count, 1),
          avg_diss |-> Tenths(cur.diss_sum, cur.diss_n),
          p_avg_diss |-> Tenths(prev.diss_sum, prev.diss_n),
          d_diss |-> pct_change(cur.diss_sum, cur.diss_n, prev.diss_sum, prev.diss_n),
          avg_react |-> Tenths(cur.react_sum, cur.react_n),
          p_avg_react |-> Tenths(prev.react_sum, prev.react_n),
          d_react |-> pct_change(cur.react_sum, cur.react_n,
                                 prev.react_sum, prev.react_n),
          top_tags |-> cur.top_tags, samples |-> cur.samples]

\* (variant) the period before is a day longer
summarize_with_comparison_longprev(rows, chat_id, start, end_inclusive) ==
    LET span_days == (end_inclusive - start) + 1
        prev_end == start - 1
        prev_start == prev_end - span_days
    IN SummaryReport(
           [chat |-> chat_id, start |-> start, end |-> end_inclusive,
            prev_start |-> prev_start, prev_end |-> prev_end],
           _compute_summary_from_rows(
               event_rows_for_chat_between(rows, chat_id, start, end_inclusive)),
           _compute_summary_from_rows(
               event_rows_for_chat_between(rows, chat_id, prev_start, prev_end)))

\* src 916-950
summarize_with_comparison(rows, chat_id, start, end_inclusive) ==
    LET span_days == (end_inclusive - start) + 1
        prev_end == start - 1
        prev_start == prev_end - (span_days - 1)
    IN SummaryReport(
           [chat |-> chat_id, start |-> start, end |-> end_inclusive,
            prev_start |-> prev_start, prev_end |-> prev_end],
           _compute_summary_from_rows(
               event_rows_for_chat_between(rows, chat_id, start, end_inclusive)),
           _compute_summary_from_rows(
               event_rows_for_chat_between(rows, chat_id, prev_start, prev_end)))

ReflectionsPath == "reflections.txt"    \* src 1049

\* (variant) save writes the text of the message whose button was pressed
SavedText_ofMessage(u, k) == Shown(u)[k].text

\* src 1045: the text save writes, empty when the session has none
SavedText(u, k) == Get(Sess(u), "last_reflection_text", <<>>)

\* (variant) the session is replaced by one that holds the new text alone
Regenerated_alone(sess, advice) == [last_reflection_text |-> advice]

\* src 1075: STATE.setdefault(uid, {})["last_reflection_text"] = advice
Regenerated(sess, advice) == Put(sess, "last_reflection_text", advice)

\* the note of a press: the message pressed and the text it showed
LogPress(u, data, k, out) ==
    [Log("on_ai_reflect_actions", u, data, out)
        EXCEPT !.ret = [msg |-> k, text |-> Shown(u)[k].text]]

\* src 1034-1081: a button of the k-th reflection message of u is pressed
on_ai_reflect_actions(u, data, k) ==
    /\ CallbackHandler(data) = "on_ai_reflect_actions"
    /\ k \in 1..Len(Shown(u))
    /\ Shown(u)[k].kb
    /\ PressFrame(IsEarlier(u, k))
    /\ UNCHANGED <<CSV_PATH, MEDITATION_CSV_PATH, hist>>
    /\ IF Head(data) = "ai_reflect_close"
       THEN /\ UNCHANGED <<State, fs>>
            /\ msgs' = [msgs EXCEPT ![u][k].kb = FALSE]
            /\ last' = LogPress(u, data, k, "closed")
       ELSE IF Head(data) = "ai_reflect_save"
       THEN LET text == SavedText(u, k)
                old == IF Exists(fs, ReflectionsPath) THEN fs[ReflectionsPath] ELSE <<>>
            IN /\ UNCHANGED State
               /\ IF text = <<>>
                  THEN /\ UNCHANGED <<fs, msgs>>
                       /\ last' = LogPress(u, data, k, "nothing")
                  ELSE /\ fs' = WriteFile(fs, ReflectionsPath,
                                   Append(old, <<Isoformat(Today), IntToStr(u), text>>))
                       /\ msgs' = [msgs EXCEPT ![u][k].kb = FALSE]
                       /\ last' = LogPress(u, data, k, "saved")
       ELSE /\ UNCHANGED fs
            /\ IF "last_reflection_input" \notin DOMAIN Sess(u)
               THEN /\ UNCHANGED <<State, msgs>>
                    /\ last' = LogPress(u, data, k, "nothing")
               ELSE \E outs \in DialogueOuts :
                    /\ State' = Put(State, u,
                            Regenerated(State[u], gemini_reflection(env.client, outs).text))
                    /\ msgs' = [msgs EXCEPT ![u][k].text =
                                    gemini_reflection(env.client, outs).text]
                    /\ last' = LogPress(u, data, k, "regenerated")

\* (variant) the responder drops the sender's session
handle_non_command_text_reset(u, text) ==
    /\ MessageHandler(u, text) = "handle_non_command_text"
    /\ MsgFrame
    /\ last' = Log("handle_non_command_text", u, text, "echo")
    /\ State' = Pop(State, u)
    /\ UNCHANGED hist
    /\ NoFiles

\* src 882-901
handle_non_command_text(u, text) ==
    /\ MessageHandler(u, text) = "handle_non_command_text"
    /\ MsgFrame
    /\ last' = Log("handle_non_command_text", u, text, "echo")
    /\ UNCHANGED <<State, hist>>
    /\ NoFiles

\* src 952-955: the summary reads the event file through load_rows
handle_today(u, text) ==
    /\ MessageHandler(u, text) = "handle_today"
    /\ MsgFrame
    /\ LET l == load_rows(fs, CSV_PATH, env.deny)
           r == summarize_with_comparison(l.rows, ChatOf(u), Today, Today)
       IN /\ fs' = l.fs
          /\ CSV_PATH' = l.path
          /\ last' = IF l.raised \/ r.raised THEN Log("handle_today", u, text, "raised")
                     ELSE [Log("handle_today", u, text, "summary") EXCEPT !.ret = r]
    /\ UNCHANGED <<State, hist, MEDITATION_CSV_PATH>>

\* An update no handler accepts is dropped.
Unhandled(u, text) ==
    /\ MessageHandler(u, text) = "none"
    /\ MsgFrame
    /\ last' = Log("none", u, text, "-")
    /\ UNCHANGED <<State, hist>>
    /\ NoFiles

\* What users send in a behaviour of the dialogue.
TextInputs ==
    { <<"a">>, <<" ", "yokloek">>, <<"7">>, <<"/", "help">>,
      <<"/", "log">>, <<"/", "meditation">>, <<"/", "undo">>, <<"/", "today">> }

CallbackInputs ==
    { <<"tag:">> \o TAGS[1], <<"use_last">>, <<"cancel">>,
      <<"diss:", "3">>, <<"react:", "1", "0">>, <<"react:", "4">>,
      <<"back">>, <<"confirm">>,
      <<"med_dur:", "5">>, <<"med_custom">>, <<"med_type:", "guided">>, <<"med_cancel">>,
      <<"ai_reflect_again">>, <<"ai_reflect_save">>, <<"ai_reflect_close">> }

\* The state after start-up (src 1083-1090): both files exist; the event file
\* is new or holds a row of an earlier run.  The behaviour takes `events`
\* updates, `stale` of them presses of buttons of earlier messages.
Started(events, stale) ==
    /\ State = EmptyDict
    /\ CSV_PATH = PrimaryPath
    /\ MEDITATION_CSV_PATH = MedPrimaryPath
    /\ \E ev \in {<<CSV_FIELDS>>, <<CSV_FIELDS, StoredRow(1, 1)>>} :
          fs = WriteFile(WriteFile(EmptyDict, PrimaryPath, ev),
                         MedPrimaryPath, <<MED_CSV_FIELDS>>)
    /\ job = IdleJob
    /\ last = NoLast
    /\ evLeft = events
    /\ staleLeft = stale
    /\ gen = NoGen
    /\ hist = EmptyDict
    /\ msgs = EmptyDict
    /\ env = [deny |-> {}, sameFs |-> TRUE, client |-> TRUE]

Init == Started(MaxEvents, MaxStale)

Next ==
    \/ \E u \in Users, text \in TextInputs :
          \/ handle_help(u, text)
          \/ start_log(u, text)
          \/ step_event_desc(u, text)
          \/ step_diss_reason(u, text)
          \/ step_react_desc(u, text)
          \/ step_react_reason(u, text)
          \/ handle_undo(u, text)
          \/ start_meditate(u, text)
          \/ med_custom_duration(u, text)
          \/ med_note_step(u, text)
          \/ handle_non_command_text(u, text)
          \/ handle_today(u, text)
          \/ Unhandled(u, text)
    \/ \E u \in Users, data \in CallbackInputs :
          \/ on_tag_or_use_last(u, data)
          \/ on_score_callback(u, data)
          \/ on_confirm_flow(u, data)
          \/ on_med_callback(u, data)
    \/ \E u \in Users, data \in CallbackInputs, k \in 1..MaxEvents :
          on_ai_reflect_actions(u, data, k)

Spec == Init /\ [][Next]_vars

----------------------------------------------------------------------------
(* One user who follows the prompts: each message answers the prompt of    *)
(* the user's step or is a command that starts the log flow, each button   *)
(* pressed is one of the keyboard under the last prompt.                   *)

MaxFlowEvents == 12     \* inbound updates per behaviour of the prompted user

FlowUser == 1

FlowTexts == { <<"a">>, <<"b">>, <<" ", "yokloek">>, <<"/", "log">> }

InitFlow == Started(MaxFlowEvents, 0)

NextFlow ==
    \/ \E text \in FlowTexts :
          \/ start_log(FlowUser, text)
          \/ step_event_desc(FlowUser, text)
          \/ step_diss_reason(FlowUser, text)
          \/ step_react_desc(FlowUser, text)
          \/ step_react_reason(FlowUser, text)
    \/ \E data \in CallbackInputs :
          \/ on_tag_or_use_last(FlowUser, data)
          \/ on_score_callback(FlowUser, data)
          \/ on_confirm_flow(FlowUser, data)
    \/ \E data \in CallbackInputs, k \in 1..MaxFlowEvents :
          on_ai_reflect_actions(FlowUser, data, k)

SpecFlow == InitFlow /\ [][NextFlow]_vars

----------------------------------------------------------------------------
(* Two users who type and press in every step of both flows and in the     *)
(* reflection follow-up: every handler that takes text, one button of each *)
(* keyboard, presses of earlier buttons included.                          *)

MaxTextEvents == 4  \* inbound updates per behaviour

TypedTexts ==
    { <<"7">>, <<" ", "yokloek">>, <<"/", "log">>, <<"/", "meditation">>,
      <<"/", "undo">> }

PressedButtons ==
    { <<"tag:">> \o TAGS[1], <<"use_last">>, <<"diss:", "3">>, <<"react:", "4">>,
      <<"confirm">>, <<"med_dur:", "5">>, <<"med_custom">>, <<"med_type:", "guided">>,
      <<"ai_reflect_close">> }

InitText == Started(MaxTextEvents, MaxStale)

NextText ==
    \/ \E u \in Users, text \in TypedTexts :
          \/ start_log(u, text)
          \/ step_event_desc(u, text)
          \/ step_diss_reason(u, text)
          \/ step_react_desc(u, text)
          \/ step_react_reason(u, text)
          \/ start_meditate(u, text)
          \/ med_custom_duration(u, text)
          \/ med_note_step(u, text)
          \/ handle_non_command_text(u, text)
          \/ handle_undo(u, text)
          \/ Unhandled(u, text)
    \/ \E u \in Users, data \in PressedButtons :
          \/ on_tag_or_use_last(u, data)
          \/ on_score_callback(u, data)
          \/ on_confirm_flow(u, data)
          \/ on_med_callback(u, data)
    \/ \E u \in Users, data \in PressedButtons, k \in 1..MaxTextEvents :
          on_ai_reflect_actions(u, data, k)

SpecText == InitText /\ [][NextText]_vars

----------------------------------------------------------------------------
(* The subscriber registry (src 85, 248-262, 858-880) and the scheduler    *)
(* (src 1115-1117).  The file holds a JSON array of chat ids, kept here as *)
(* the sequence json.load gives back.                                      *)

SUBS_PATH == "subscribers.json"

MaxChats == 3       \* chats that send the two commands
MaxSubEvents == 5   \* commands and triggers per behaviour

Chats == 1..MaxChats

\* src 248-258
load_subs == IF ~Exists(fs, SUBS_PATH) THEN <<>> ELSE fs[SUBS_PATH]

\* src 260-262
save_subs(subs) == fs' = WriteFile(fs, SUBS_PATH, subs)

IsIn(x, xs) == \E i \in 1..Len(xs) : xs[i] = x

\* the reply of both handlers and the count they send after it (src 868, 880)
SubsReply(op, u, text, out, subs) ==
    /\ last' = [Log(op, u, text, out) EXCEPT !.ret = [count |-> Len(subs)]]
    /\ UNCHANGED <<State, hist, CSV_PATH, MEDITATION_CSV_PATH>>

\* (variant) the chat is appended without the membership test
handle_subscribe_daily_always(u, text) ==
    /\ MessageHandler(u, text) = "handle_subscribe_daily"
    /\ MsgFrame
    /\ save_subs(Append(load_subs, u))
    /\ SubsReply("handle_subscribe_daily", u, text, "subscribed", Append(load_subs, u))

\* src 858-868
handle_subscribe_daily(u, text) ==
    /\ MessageHandler(u, text) = "handle_subscribe_daily"
    /\ MsgFrame
    /\ IF IsIn(u, load_subs)
       THEN /\ UNCHANGED fs
            /\ SubsReply("handle_subscribe_daily", u, text, "already", load_subs)
       ELSE /\ save_subs(Append(load_subs, u))
            /\ SubsReply("handle_subscribe_daily", u, text, "subscribed",
                         Append(load_subs, u))

\* src 870-880
handle_unsubscribe(u, text) ==
    /\ MessageHandler(u, text) = "handle_unsubscribe"
    /\ MsgFrame
    /\ IF ~IsIn(u, load_subs)
       THEN /\ UNCHANGED fs
            /\ SubsReply("handle_unsubscribe", u, text, "absent", load_subs)
       ELSE /\ save_subs(SelectSeq(load_subs, LAMBDA x : x # u))
            /\ SubsReply("handle_unsubscribe", u, text, "unsubscribed",
                         SelectSeq(load_subs, LAMBDA x : x # u))

\* src 1116-1117: the scheduler is created and started; no job is added to it
\* anywhere in the program.  A job is the set of chats it sends a summary to.
ScheduledJobs == {}

\* The daily trigger time arrives: the scheduler runs its jobs.
daily_trigger ==
    /\ MsgFrame
    /\ last' = [NoLast EXCEPT !.op = "daily_trigger",
                              !.ret = [sent |-> UNION ScheduledJobs]]
    /\ UNCHANGED <<State, hist, fs, CSV_PATH, MEDITATION_CSV_PATH>>

SubTexts == { <<"/", "subscribe_daily">>, <<"/", "unsubscribe">> }

InitSubs == Started(MaxSubEvents, 0)

NextSubs ==
    \/ \E u \in Chats, text \in SubTexts : handle_subscribe_daily(u, text)
    \/ \E u \in Chats, text \in SubTexts : handle_unsubscribe(u, text)
    \/ daily_trigger

SpecSubs == InitSubs /\ [][NextSubs]_vars

----------------------------------------------------------------------------
(* Start-up and ensure-ready where files cannot be created: src 78-83,     *)
(* 138-161, 606-635, 1083-1086.  The primary files are in the script's     *)
(* directory, the first fallbacks in the home directory, the second in the *)
(* temp directory under a name with the process id.                        *)

MaxReadyOps == 3    \* store operations and restarts per behaviour

PathsIn(dir) ==
    IF dir = "script" THEN {PrimaryPath, MedPrimaryPath}
    ELSE IF dir = "home" THEN {HomePath, MedHomePath}
    ELSE {TmpPidPath, MedTmpPidPath}

\* the paths at which mkdir or open(.., "w") raises OSError
DenySets == {UNION {PathsIn(d) : d \in ds} : ds \in SUBSET {"script", "home", "tmp"}}

\* what may lie at the event-file paths when the module is loaded
FilesAt(p) ==
    IF p = PrimaryPath THEN {<<>>, <<CSV_FIELDS>>, <<CSV_FIELDS, StoredRow(1, 1)>>}
    ELSE IF p = HomePath THEN {<<>>, <<CSV_FIELDS, StoredRow(2, 1)>>}
    ELSE {<<>>}

\* a meditation file whose header is not MED_CSV_FIELDS (src 612): the
\* columns in another order and no chat_id, with one row
LegacyMedFile ==
    << <<"timestamp_iso", "user_id", "username", "type", "duration_min", "note">>,
       <<Isoformat(1), <<"1">>, <<"@", "al">>, <<"guided">>, <<"5">>, <<"-">>>> >>

\* the disk with content c at path p; <<>> stands for no file
WithFile(f, p, c) == IF c = <<>> THEN f ELSE WriteFile(f, p, c)

InitReady ==
    /\ State = EmptyDict
    /\ CSV_PATH = PrimaryPath
    /\ MEDITATION_CSV_PATH = MedPrimaryPath
    /\ \E a \in FilesAt(PrimaryPath), b \in FilesAt(HomePath),
          c \in {<<>>, <<MED_CSV_FIELDS>>, LegacyMedFile} :
          fs = WithFile(WithFile(WithFile(EmptyDict, PrimaryPath, a), HomePath, b),
                        MedPrimaryPath, c)
    /\ job = IdleJob
    /\ last = NoLast
    /\ evLeft = MaxReadyOps
    /\ staleLeft = 0
    /\ gen = NoGen
    /\ hist = EmptyDict
    /\ msgs = EmptyDict
    /\ \E d \in DenySets : env = [deny |-> d, sameFs |-> TRUE, client |-> FALSE]

\* src 637-638
MedEnsure ==
    /\ job.kind = "idle" /\ evLeft > 0
    /\ LET r == ensure_med_csv_ready(fs, MEDITATION_CSV_PATH, env.deny)
       IN /\ fs' = r.fs
          /\ MEDITATION_CSV_PATH' = r.path
          /\ last' = [NoLast EXCEPT !.op = "med_init",
                         !.out = IF r.raised THEN "raised" ELSE "ok"]
    /\ evLeft' = evLeft - 1
    /\ UNCHANGED <<State, CSV_PATH, job, staleLeft, gen, env, hist, msgs>>

\* The files a new process finds: its process id is another one or, the ids
\* being reused, the same; with another id the temp-directory files of the
\* old process are not at the paths the new process names.
FilesOfNewProcess(f, samePid) ==
    IF samePid THEN f
    ELSE [q \in DOMAIN f \ PathsIn("tmp") |-> f[q]]

\* The process is started again: the module is loaded (src 78-83, 606-611: the
\* paths are the primary ones, STATE is empty) and __main__ runs
\* init_csv_if_needed() and ensure_med_csv_ready() (src 1085-1086); an OSError
\* of either ends the process there.
Restart(samePid) ==
    /\ job.kind = "idle" /\ evLeft > 0
    /\ LET i == init_csv_if_needed(FilesOfNewProcess(fs, samePid), PrimaryPath, env.deny)
           r == ensure_med_csv_ready(i.fs, MedPrimaryPath, env.deny)
       IN /\ fs' = IF i.raised THEN i.fs ELSE r.fs
          /\ CSV_PATH' = i.path
          /\ MEDITATION_CSV_PATH' = IF i.raised THEN MedPrimaryPath ELSE r.path
          /\ last' = [NoLast EXCEPT !.op = "restart",
                         !.before = IF Exists(fs, CSV_PATH) THEN Live ELSE <<>>,
                         !.out = IF i.raised \/ r.raised THEN "raised" ELSE "ok"]
    /\ State' = EmptyDict
    /\ evLeft' = evLeft - 1
    /\ UNCHANGED <<job, staleLeft, gen, env, hist, msgs>>

NextReady ==
    \/ StoreEnsureInPlace
    \/ MedEnsure
    \/ \E u \in Users, k \in 1..2 : StoreAppend(u, k)
    \/ \E samePid \in BOOLEAN : Restart(samePid)

SpecReady == InitReady /\ [][NextReady]_vars

----------------------------------------------------------------------------
(* The same user from the confirm step of a log flow on, with one press of *)
(* a button of an earlier message.                                         *)

MaxReflectEvents == 10  \* inbound updates per behaviour from the confirm step on

\* the session of a user who answered every prompt of the log flow
ConfirmSession ==
    [step |-> "confirm", tag |-> TAGS[1], event_desc |-> <<"a">>,
     dissatisfaction_score |-> 3, dissatisfaction_reason |-> <<"a">>,
     reaction_desc |-> <<"a">>, reaction_score |-> 4, reaction_reason |-> <<"a">>]

InitReflect ==
    /\ State = Put(EmptyDict, FlowUser, ConfirmSession)
    /\ CSV_PATH = PrimaryPath
    /\ MEDITATION_CSV_PATH = MedPrimaryPath
    /\ fs = WriteFile(WriteFile(EmptyDict, PrimaryPath, <<CSV_FIELDS>>),
                      MedPrimaryPath, <<MED_CSV_FIELDS>>)
    /\ job = IdleJob
    /\ last = NoLast
    /\ evLeft = MaxReflectEvents
    /\ staleLeft = 1
    /\ gen = NoGen
    /\ hist = Put(EmptyDict, FlowUser, NewFlow(1))
    /\ msgs = EmptyDict
    /\ \E c \in BOOLEAN : env = [deny |-> {}, sameFs |-> TRUE, client |-> c]

SpecReflect == InitReflect /\ [][NextFlow]_vars

----------------------------------------------------------------------------
(* The last step of both flows with a transport that may fail: a call of   *)
(* bot.edit_message_text or bot.send_message raises, and the exception     *)
(* leaves the handler where the call has no try around it.                 *)

MaxSendEvents == 3  \* inbound updates per behaviour from the last steps on

\* the session of a user who chose duration and type of a meditation
NoteSession == [step |-> "med_note", duration_min |-> 5, type |-> <<"guided">>]

InitSend ==
    /\ State = Put(Put(EmptyDict, 1, ConfirmSession), 2, NoteSession)
    /\ CSV_PATH = PrimaryPath
    /\ MEDITATION_CSV_PATH = MedPrimaryPath
    /\ fs = WriteFile(WriteFile(EmptyDict, PrimaryPath, <<CSV_FIELDS>>),
                      MedPrimaryPath, <<MED_CSV_FIELDS>>)
    /\ job = IdleJob
    /\ last = NoLast
    /\ evLeft = MaxSendEvents
    /\ staleLeft = 0
    /\ gen = NoGen
    /\ hist = Put(EmptyDict, 1, NewFlow(1))
    /\ msgs = EmptyDict
    /\ \E c \in BOOLEAN : env = [deny |-> {}, sameFs |-> TRUE, client |-> c]

\* src 528-584 when a call of the transport raises.  at = "edit": the edit of
\* src 544 or the send of src 547, after save_row and before STATE[uid] is
\* replaced; at = "ui": the send of src 581 and the one of src 584 in its
\* except branch, after STATE[uid] was replaced.
on_confirm_flow_undelivered(u, data, at) ==
    /\ CallbackHandler(data) = "on_confirm_flow"
    /\ Head(data) = "confirm"
    /\ CbFrame(u, data)
    /\ ~save_row(fs, CSV_PATH, env.deny, ConfirmRow(u, Sess(u), Today)).raised
    /\ fs' = save_row(fs, CSV_PATH, env.deny, ConfirmRow(u, Sess(u), Today)).fs
    /\ CSV_PATH' = save_row(fs, CSV_PATH, env.deny, ConfirmRow(u, Sess(u), Today)).path
    /\ UNCHANGED <<MEDITATION_CSV_PATH, hist, msgs>>
    /\ IF at = "edit"
       THEN /\ UNCHANGED State
            /\ last' = Log("on_confirm_flow", u, data, "send_raised")
       ELSE \E outs \in DialogueOuts :
            /\ State' = Put(State, u,
                    [last_reflection_input |->
                        ReflectionInput(ConfirmRow(u, Sess(u), Today)),
                     last_reflection_text |-> gemini_reflection(env.client, outs).text])
            /\ last' = Log("on_confirm_flow", u, data, "ui_raised")

\* src 785-809 when the send of src 802 raises: after save_med_row and before
\* STATE.pop(uid, None)
med_note_step_undelivered(u, text) ==
    /\ MessageHandler(u, text) = "med_note_step"
    /\ Strip(text) # CANCEL_TEXT
    /\ MsgFrame
    /\ LET data == Put(State[u], "note", NoteOf(text))
           row == [timestamp_iso |-> Isoformat(Today), user_id |-> u,
                   username |-> username_from(u), chat_id |-> ChatOf(u),
                   duration_min |-> Get(data, "duration_min", 0),
                   type |-> Get(data, "type", <<>>),
                   note |-> Get(data, "note", <<>>)]
           w == save_med_row(fs, MEDITATION_CSV_PATH, env.deny, row)
       IN /\ ~w.raised
          /\ fs' = w.fs
          /\ MEDITATION_CSV_PATH' = w.path
          /\ State' = Put(State, u, data)
    /\ UNCHANGED <<CSV_PATH, hist>>
    /\ last' = Log("med_note_step", u, text, "send_raised")

NextSend ==
    \/ \E u \in Users, data \in {<<"back">>, <<"confirm">>} : on_confirm_flow(u, data)
    \/ \E u \in Users, at \in {"edit", "ui"} :
          on_confirm_flow_undelivered(u, <<"confirm">>, at)
    \/ \E u \in Users, text \in {<<"a">>, <<"-">>} : med_note_step(u, text)
    \/ \E u \in Users, text \in {<<"a">>, <<"-">>} : med_note_step_undelivered(u, text)

SpecSend == InitSend /\ [][NextSend]_vars

----------------------------------------------------------------------------
(* Two users near the end of their log flows, their turns interleaved.     *)

MaxTwoEvents == 6   \* inbound updates of the two users per behaviour

\* user 1 is asked for the reaction score, user 2 for its reason
InitTwo ==
    /\ State = Put(Put(EmptyDict, 1,
                     [step |-> "react_score", tag |-> TAGS[1], event_desc |-> <<"a">>,
                      dissatisfaction_score |-> 3, dissatisfaction_reason |-> <<"a">>,
                      reaction_desc |-> <<"a">>]),
                   2,
                     [step |-> "react_reason", tag |-> TAGS[2], event_desc |-> <<"b">>,
                      dissatisfaction_score |-> 7, dissatisfaction_reason |-> <<"b">>,
                      reaction_desc |-> <<"b">>, reaction_score |-> 10])
    /\ CSV_PATH = PrimaryPath
    /\ MEDITATION_CSV_PATH = MedPrimaryPath
    /\ fs = WriteFile(WriteFile(EmptyDict, PrimaryPath, <<CSV_FIELDS>>),
                      MedPrimaryPath, <<MED_CSV_FIELDS>>)
    /\ job = IdleJob
    /\ last = NoLast
    /\ evLeft = MaxTwoEvents
    /\ staleLeft = 0
    /\ gen = NoGen
    /\ hist = EmptyDict
    /\ msgs = EmptyDict
    /\ env = [deny |-> {}, sameFs |-> TRUE, client |-> TRUE]

NextTwo ==
    \/ \E u \in Users, text \in {<<"a">>, <<"b">>} : step_react_reason(u, text)
    \/ \E u \in Users, data \in {<<"react:", "4">>, <<"react:", "1", "0">>} :
          on_score_callback(u, data)
    \/ \E u \in Users, data \in {<<"back">>, <<"confirm">>} : on_confirm_flow(u, data)

SpecTwo == InitTwo /\ [][NextTwo]_vars

----------------------------------------------------------------------------
(* Claims about the dialogue.                                              *)

LogSteps == {"tag", "event_desc", "diss_score", "diss_reason", "react_desc",
             "react_score", "react_reason", "confirm"}

DataRows == IF Exists(fs, CSV_PATH) /\ Live # <<>> THEN Tail(Live) ELSE <<>>

\* a score cell holds an integer of 1..10
ScoreCellOk(c) == AllDigits(c) /\ DigitsVal(c, 0) \in 1..10

\* C1: every row of the event file has a dissatisfaction score and a
\* reaction score that are integers of 1..10.
C1_ScoresInRange ==
    \A i \in 1..Len(DataRows) :
        ScoreCellOk(DataRows[i][7]) /\ ScoreCellOk(DataRows[i][10])

\* C2: when a user who started the log flow and advanced to any of its eight
\* steps has sent cancel (the button, or the keyword in a free-text step),
\* the user has no session and the event file has no more rows than when the
\* flow started.
C2_CancelClearsSession ==
    (last.out = "cancelled" /\ last.pre \in LogSteps /\ last.uid \in DOMAIN hist) =>
        /\ last.uid \notin DOMAIN State
        /\ EventRowCount = hist[last.uid].rows0
        /\ EventRowCount = last.n

\* C2 witness: the user went all the way to the confirm step and pressed cancel.
C2_Witness ==
    /\ last.out = "cancelled" /\ last.pre = "confirm" /\ last.data = <<"cancel">>
    /\ last.uid \in DOMAIN hist
    /\ last.uid \notin DOMAIN State

\* the row the last confirm appended
SavedRow == Live[Len(Live)]

BackThenSaved ==
    /\ last.op = "on_confirm_flow" /\ last.out = "saved" /\ last.pre = "confirm"
    /\ last.uid \in DOMAIN hist
    /\ hist[last.uid].back

\* C3: when a user pressed back at confirm, chose a reaction score, typed a
\* reaction reason and confirmed, the appended row carries that score and
\* that reason, and the tag, event description, dissatisfaction score and
\* reason and reaction description the session held when back was pressed.
C3_BackKeepsEarlierAnswers ==
    BackThenSaved =>
        LET h == hist[last.uid]
        IN /\ Len(Live) = last.n + 1
           /\ SavedRow[2] = IntToStr(last.uid)
           /\ SavedRow[5] = h.snap["tag"]
           /\ SavedRow[6] = h.snap["event_desc"]
           /\ SavedRow[7] = IntToStr(h.snap["dissatisfaction_score"])
           /\ SavedRow[8] = h.snap["dissatisfaction_reason"]
           /\ SavedRow[9] = h.snap["reaction_desc"]
           /\ SavedRow[10] = IntToStr(h.score)
           /\ SavedRow[11] = Strip(h.reason)

\* C3 witness: the score and the reason given after back differ from those
\* of the session at back.
C3_Witness ==
    /\ BackThenSaved
    /\ hist[last.uid].score # hist[last.uid].snap["reaction_score"]
    /\ Strip(hist[last.uid].reason) # hist[last.uid].snap["reaction_reason"]
    /\ SavedRow[10] = IntToStr(hist[last.uid].score)

\* the fresh session of the flow a command starts
FreshSession(cmd) ==
    IF cmd = <<"log">> THEN [step |-> "tag"] ELSE [step |-> "med_duration"]

FlowCommands == {<<"log">>, <<"meditate">>, <<"meditation">>}

\* C9: after a user has sent a flow-starting command, in whatever session
\* state, the user's session is exactly the fresh session of that flow.
C9_FlowCommandReplacesSession ==
    (last.op # "none" /\ CommandOf(last.data) \in FlowCommands) =>
        /\ last.uid \in DOMAIN State
        /\ State[last.uid] = FreshSession(CommandOf(last.data))

\* C10: the event file grows only by a confirm received while the user's
\* step is confirm, and then by exactly one row.
C10_GrowsOnlyByConfirmAtConfirm ==
    [][EventRowCount' > EventRowCount =>
          /\ last'.op = "on_confirm_flow"
          /\ last'.data = <<"confirm">>
          /\ StepOf(last'.uid) = "confirm"
          /\ EventRowCount' = EventRowCount + 1]_vars

----------------------------------------------------------------------------
(* One user who follows the prompts of the meditation flow.                *)

MaxMedEvents == 7       \* inbound updates per behaviour of the meditating user

MedTexts ==
    { <<"7">>, <<" ", "1", "2", " ">>, <<"2", ".", "5">>, <<"0">>, <<"-", "3">>,
      <<"a">>, <<"-">>, <<" ", "yokloek">>, <<"/", "meditation">> }

InitMed == Started(MaxMedEvents, 0)

NextMed ==
    \/ \E text \in MedTexts :
          \/ start_meditate(FlowUser, text)
          \/ med_custom_duration(FlowUser, text)
          \/ med_note_step(FlowUser, text)
    \/ \E data \in CallbackInputs : on_med_callback(FlowUser, data)

SpecMed == InitMed /\ [][NextMed]_vars

\* the meditation file and its data rows
MedLive == fs[MEDITATION_CSV_PATH]

MedDataRows ==
    IF Exists(fs, MEDITATION_CSV_PATH) /\ MedLive # <<>> THEN Tail(MedLive) ELSE <<>>

\* The minutes a typed duration stands for, 0 when it is not a positive
\* number of minutes.
TypedMinutes(text) ==
    IF text = <<"7">> THEN 7
    ELSE IF text = <<" ", "1", "2", " ">> THEN 12
    ELSE IF text = <<"2", ".", "5">> THEN 2
    ELSE 0

\* the minutes of a preset button
ButtonMinutes(data) == IF data = <<"med_dur:", "5">> THEN 5 ELSE 0

\* the note a typed note is stored as
StoredNote(text) ==
    IF text = <<"-">> THEN <<>>
    ELSE IF text = <<" ", "1", "2", " ">> THEN <<"1", "2">>
    ELSE text

C12_MedDurationPositive ==
    \A i \in 1..Len(MedDataRows) :
        AllDigits(MedDataRows[i][5]) /\ DigitsVal(MedDataRows[i][5], 0) > 0

\* C13: in the custom-duration step a text other than the cancel keyword that
\* is not a positive number of minutes changes no session and no file and is
\* answered by the prompt again; a text that is one puts its minutes in the
\* session and moves the step to med_type; no row is written either way.
C13_CustomDurationValidated ==
    [][(last'.op = "med_custom_duration" /\ last'.out # "cancelled") =>
          LET u == last'.uid
              minutes == TypedMinutes(last'.data)
          IN /\ StepOf(u) = "med_custom_duration"
             /\ fs' = fs
             /\ IF minutes > 0
                THEN /\ State'[u]["step"] = "med_type"
                     /\ State'[u]["duration_min"] = minutes
                ELSE /\ State' = State
                     /\ last'.out = "reprompt"
      ]_vars

\* C13 witness: "0" typed at the custom-duration step left the step and a
\* session without duration.
C13_Witness ==
    /\ last.op = "med_custom_duration" /\ last.out = "reprompt"
    /\ last.data = <<"0">>
    /\ StepOf(last.uid) = "med_custom_duration"
    /\ "duration_min" \notin DOMAIN State[last.uid]

----------------------------------------------------------------------------
(* The reflection generator on its own: a call with any backend behaviour. *)

InitGen ==
    /\ State = EmptyDict
    /\ CSV_PATH = PrimaryPath
    /\ MEDITATION_CSV_PATH = MedPrimaryPath
    /\ fs = EmptyDict
    /\ job = IdleJob
    /\ last = NoLast
    /\ evLeft = 1
    /\ staleLeft = 0
    /\ hist = EmptyDict
    /\ msgs = EmptyDict
    /\ \E c \in BOOLEAN :
          /\ env = [deny |-> {}, sameFs |-> TRUE, client |-> c]
          /\ \E outs \in [1..Attempts -> Outcomes] :
                gen = [client |-> c, outs |-> outs, done |-> FALSE, text |-> <<>>,
                       calls |-> 0, sleeps |-> <<>>, raised |-> FALSE]

\* one call of gemini_reflection (src 297-356)
Generate ==
    /\ ~gen.done
    /\ LET r == gemini_reflection(env.client, gen.outs)
       IN gen' = [gen EXCEPT !.done = TRUE, !.text = r.text, !.calls = r.calls,
                             !.sleeps = r.sleeps, !.raised = r.raised]
    /\ UNCHANGED <<State, fs, CSV_PATH, job, last, evLeft, staleLeft, env, hist,
                   msgs, MEDITATION_CSV_PATH>>

NextGen == Generate

SpecGen == InitGen /\ [][NextGen]_vars

AllOuts(P(_)) == \A k \in 1..Attempts : P(gen.outs[k])

\* C5: whatever the backend does (absent; every attempt failing with a
\* transient error; a non-transient error; a response with text; a response
\* with empty text), a call returns a non-empty string and raises nothing.
C5_AlwaysNonEmptyAdvice ==
    gen.done => (~gen.raised /\ gen.text # <<>> /\ gen.text # None)

\* C5 witness: a backend is configured and all three attempts failed with a
\* transient error; the call has returned.
C5_Witness ==
    /\ gen.done /\ gen.client /\ gen.calls = Attempts
    /\ AllOuts(LAMBDA o : o.kind = "error" /\ IsTransient(o.text))
    /\ gen.text # <<>>

\* the error messages that count as transient: they hold 503, UNAVAILABLE or
\* overloaded in any case
TransientMessages ==
    {<<"503", " ", "busy">>, <<"UNAVAILABLE">>, <<"Model", " ", "Overloaded">>}

TransientFailure(o) == o.kind = "error" /\ o.text \in TransientMessages

\* the first attempt that does not fail with a transient error; the third
\* when all fail so
EndingAttempt ==
    LET S == {k \in 1..3 : ~TransientFailure(gen.outs[k])}
    IN IF S = {} THEN 3 ELSE CHOOSE k \in S : \A j \in S : k <= j

\* C14: with a backend, a call makes at least one and at most 3 attempts and
\* as many as it takes to meet the first attempt that is not a transient
\* failure (a response, empty or not, or another error); it then returns.
C14_AtMostThreeAttempts ==
    (gen.done /\ gen.client) =>
        /\ gen.calls \in 1..3
        /\ gen.calls = EndingAttempt
        /\ \A k \in 1..(gen.calls - 1) : TransientFailure(gen.outs[k])
        /\ ~gen.raised

\* C14 witness: a transient failure, then a non-transient one: two attempts.
C14_Witness ==
    /\ gen.done /\ gen.client /\ gen.calls = 2
    /\ gen.outs[1] = [kind |-> "error", text |-> <<"503", " ", "busy">>]
    /\ gen.outs[2] = [kind |-> "error", text |-> <<"400", " ", "bad">>]

\* the waits of a call that ends with its n-th attempt
WaitsBefore(n) == IF n = 1 THEN <<>> ELSE IF n = 2 THEN <<1>> ELSE <<1, 3>>

RECURSIVE TotalOf(_)
TotalOf(ws) == IF ws = <<>> THEN 0 ELSE Head(ws) + TotalOf(Tail(ws))

\* C30: a call waits once after each transient failure that another attempt
\* follows, 1 second after the first attempt and 3 seconds after the second,
\* and not after the attempt it ends with (the third included); a call without
\* a backend does not wait; the waits of a call add up to 6 seconds at most.
C30_BackoffWaits ==
    gen.done =>
        /\ gen.sleeps = IF gen.client THEN WaitsBefore(EndingAttempt) ELSE <<>>
        /\ Len(gen.sleeps) = (IF gen.client THEN gen.calls - 1 ELSE 0)
        /\ \A k \in 1..Len(gen.sleeps) : TransientFailure(gen.outs[k])
        /\ TotalOf(gen.sleeps) <= 6

\* C30 witness: three transient failures: the call waited 1 and 3 seconds and
\* not after the third.
C30_Witness ==
    /\ gen.done /\ gen.client /\ gen.calls = 3
    /\ \A k \in 1..3 : TransientFailure(gen.outs[k])
    /\ gen.sleeps = <<1, 3>>

\* the text of a response without the blanks around it; empty for no text
ResponseText(t) ==
    IF t = <<"be", "calm">> THEN t
    ELSE IF t = <<" ", "ok", " ">> THEN <<"ok">>
    ELSE <<>>

\* C15: without a backend the call makes no attempt and returns the fallback
\* text; with one, it returns the fallback text when the ending attempt is a
\* response with no text, the text of the response (without the blanks around
\* it) when it has one, and the error line followed by the fallback text when
\* the ending attempt is a failure that is not transient.
C15_ReturnsByOutcome ==
    gen.done =>
        IF ~gen.client THEN gen.text = FallbackText /\ gen.calls = 0
        ELSE LET o == gen.outs[EndingAttempt]
             IN /\ (o.kind = "text" /\ ResponseText(o.text) = <<>>) =>
                      gen.text = FallbackText
                /\ (o.kind = "text" /\ ResponseText(o.text) # <<>>) =>
                      gen.text = ResponseText(o.text)
                /\ (o.kind = "error" /\ ~TransientFailure(o)) =>
                      gen.text = <<"(AI)", "error:">> \o o.text \o <<"\n\n">> \o FallbackText

\* C15 witness: the second attempt answered with a text of blanks only; the
\* call returned the fallback text.
C15_Witness ==
    /\ gen.done /\ gen.client
    /\ gen.outs[1] = [kind |-> "error", text |-> <<"UNAVAILABLE">>]
    /\ gen.outs[2] = [kind |-> "text", text |-> <<" ">>]
    /\ gen.text = FallbackText

----------------------------------------------------------------------------
(* The summary engine on its own: an event file of a few rows of two       *)
(* chats and three days, and one summary of a chat and a period.           *)

MaxSummaryRows == 3     \* data rows of the summarised file

TagA == TAGS[1]
TagB == TAGS[2]

SumRow(chat, ts, tag, diss, react) ==
    << ts, IntToStr(chat), username_from(chat), IntToStr(chat), tag, <<"e">>,
       IntToStr(diss), <<"why">>, <<"did">>, IntToStr(react), <<"-">> >>

\* rows of chat 1 on day 2 (one with a timestamp only strptime reads), a row
\* of chat 2, a row of day 1, a row whose timestamp does not parse, a row
\* with "-" for a score, a row with an empty score, a row with scores 0
SummaryRows ==
    { SumRow(1, Isoformat(2), TagA, 2, 9), SumRow(1, Isoformat(2), TagA, 4, 7),
      SumRow(1, Isoformat(2), TagB, 6, 5), SumRow(1, <<"d", "2">>, TagB, 3, 10),
      SumRow(2, Isoformat(2), TagB, 10, 1), SumRow(1, Isoformat(1), TagB, 8, 3),
      SumRow(1, <<"x">>, TagB, 9, 2),
      [SumRow(1, Isoformat(2), TagA, 5, 5) EXCEPT ![7] = <<"-">>],
      [SumRow(1, Isoformat(2), TagA, 5, 5) EXCEPT ![7] = <<>>],
      SumRow(1, Isoformat(1), TagB, 0, 0) }

SummaryDays == 1..3

InitSummary ==
    /\ State = EmptyDict
    /\ CSV_PATH = PrimaryPath
    /\ MEDITATION_CSV_PATH = MedPrimaryPath
    /\ \E rs \in SeqsUpTo(SummaryRows, MaxSummaryRows) :
          fs = WriteFile(EmptyDict, PrimaryPath, <<CSV_FIELDS>> \o rs)
    /\ job = IdleJob
    /\ last = NoLast
    /\ evLeft = 1
    /\ staleLeft = 0
    /\ gen = NoGen
    /\ hist = EmptyDict
    /\ msgs = EmptyDict
    /\ env = [deny |-> {}, sameFs |-> TRUE, client |-> FALSE]

\* summarize_with_comparison (src 916-950) for a chat and a period
Summarize(chat, start, end) ==
    /\ evLeft > 0
    /\ start <= end
    /\ LET l == load_rows(fs, CSV_PATH, env.deny)
       IN /\ fs' = l.fs
          /\ CSV_PATH' = l.path
          /\ last' = [NoLast EXCEPT !.op = "summarize", !.before = Live,
                        !.ret = summarize_with_comparison(l.rows, chat, start, end)]
    /\ evLeft' = evLeft - 1
    /\ UNCHANGED <<State, job, staleLeft, gen, env, hist, msgs, MEDITATION_CSV_PATH>>

NextSummary == \E chat \in Users, start \in SummaryDays, end \in SummaryDays :
                   Summarize(chat, start, end)

SpecSummary == InitSummary /\ [][NextSummary]_vars

\* The day a timestamp cell parses to, 0 when it does not parse.
DayOfCell(c) ==
    IF Len(c) >= 2 /\ Head(c) \in {"D", "d"} /\ AllDigits(Tail(c))
    THEN DigitsVal(Tail(c), 0) ELSE 0

\* the rows (indices into the data rows of the summarised file) a summary is about
Matching ==
    {i \in 1..Len(BeforeRows) :
        /\ BeforeRows[i][4] = IntToStr(last.ret.head.chat)
        /\ DayOfCell(BeforeRows[i][1]) \in last.ret.head.start..last.ret.head.end}

RECURSIVE DissSum(_)
DissSum(S) ==
    IF S = {} THEN 0
    ELSE LET i == CHOOSE x \in S : TRUE
         IN DigitsVal(BeforeRows[i][7], 0) + DissSum(S \ {i})

TagCount(t) == Cardinality({i \in Matching : BeforeRows[i][5] = t})

WellFormedScores ==
    \A i \in 1..Len(BeforeRows) :
        /\ Len(BeforeRows[i]) = NCols
        /\ ScoreCellOk(BeforeRows[i][7]) /\ ScoreCellOk(BeforeRows[i][10])

Abs(x) == IF x < 0 THEN 0 - x ELSE x

\* C8: on a store with well-formed scores a summary reports as count the
\* number of rows of the chat whose timestamp parses to a day of the period,
\* as average dissatisfaction the mean of their scores (to the one decimal
\* the report prints), and as first top tag a most frequent tag with the
\* number of its occurrences.
C8_SummaryFigures ==
    (last.op = "summarize" /\ WellFormedScores) =>
        /\ ~last.ret.raised
        /\ last.ret.none <=> (Matching = {})
        /\ ~last.ret.none =>
              /\ last.ret.count = Cardinality(Matching)
              /\ 2 * Abs(10 * DissSum(Matching) - last.ret.count * last.ret.avg_diss)
                    <= last.ret.count
              /\ LET top == last.ret.top_tags[1]
                 IN /\ top[2] = TagCount(top[1])
                    /\ \A i \in Matching : TagCount(BeforeRows[i][5]) <= top[2]

\* C8 witness: three rows of one day with tags A, A, B and scores 2, 4, 6
\* give count 3, average 4.0 and top tag A (2).
C8_Witness ==
    /\ last.op = "summarize"
    /\ BeforeRows = << SumRow(1, Isoformat(2), TagA, 2, 9),
                       SumRow(1, Isoformat(2), TagA, 4, 7),
                       SumRow(1, Isoformat(2), TagB, 6, 5) >>
    /\ last.ret.head = [chat |-> 1, start |-> 2, end |-> 2, prev_start |-> 1,
                        prev_end |-> 1]
    /\ ~last.ret.none
    /\ last.ret.count = 3
    /\ last.ret.avg_diss = 40
    /\ last.ret.top_tags[1] = <<TagA, 2>>

\* whether a timestamp cell parses
DayOk(c) == Len(c) >= 2 /\ Head(c) \in {"D", "d"} /\ AllDigits(Tail(c))

\* the rows of a chat whose timestamp parses to a day of a..b
RowsIn(chat, a, b) ==
    {i \in 1..Len(BeforeRows) :
        /\ BeforeRows[i][4] = IntToStr(chat)
        /\ DayOk(BeforeRows[i][1])
        /\ DayOfCell(BeforeRows[i][1]) \in a..b}

\* the rows of the period summarised and of the period of the same number of
\* days that ends the day before it
CurRows == RowsIn(last.ret.head.chat, last.ret.head.start, last.ret.head.end)

PrevRows ==
    LET h == last.ret.head
    IN RowsIn(h.chat, h.start - ((h.end - h.start) + 1), h.start - 1)

\* the rows of S whose cell of column col is a number
Scored(S, col) == {i \in S : AllDigits(BeforeRows[i][col])}

RECURSIVE CellSum(_, _)
CellSum(S, col) ==
    IF S = {} THEN 0
    ELSE LET i == CHOOSE x \in S : TRUE
         IN DigitsVal(BeforeRows[i][col], 0) + CellSum(S \ {i}, col)

\* t tenths is the mean of the cells of column col of the scored rows of S,
\* to the decimal printed; 0 with no scored row
MeanIs(t, S, col) ==
    LET n == Cardinality(Scored(S, col))
    IN IF n = 0 THEN t = 0
       ELSE 2 * Abs(10 * CellSum(Scored(S, col), col) - n * t) <= n

\* C16: a summary is a report (nothing is raised) whatever the score cells
\* of the rows hold, and its averages are the means over the rows of the
\* period whose score cell is a number: a row whose cell is empty, "-" or
\* not a number counts neither in the sum nor in the number of scores.
C16_AveragesOverNumericScores ==
    last.op = "summarize" =>
        /\ ~last.ret.raised
        /\ (~last.ret.raised /\ ~last.ret.none) =>
              /\ MeanIs(last.ret.avg_diss, CurRows, 7)
              /\ MeanIs(last.ret.avg_react, CurRows, 10)

\* every score cell is a number or "-"
ParsableScores ==
    \A i \in 1..Len(BeforeRows) :
        \A col \in {7, 10} : AllDigits(BeforeRows[i][col]) \/ BeforeRows[i][col] = <<"-">>

Reported == last.op = "summarize" /\ ~last.ret.raised /\ ~last.ret.none

\* C17: the period a summary is compared with ends the day before start and
\* has as many days as the period summarised, so the two share no day; the
\* count reported for it is the number of rows of the same chat in it.
C17_PreviousPeriod ==
    last.op = "summarize" =>
        LET h == last.ret.head
        IN /\ h.prev_end = h.start - 1
           /\ (h.prev_end - h.prev_start) + 1 = (h.end - h.start) + 1
           /\ (h.prev_start..h.prev_end) \cap (h.start..h.end) = {}
           /\ Reported => last.ret.p_count = Cardinality(PrevRows)

\* C17 witness: days 2..3 of chat 1 are compared with days 0..1, which hold
\* one row of the chat.
C17_Witness ==
    /\ Reported
    /\ last.ret.head = [chat |-> 1, start |-> 2, end |-> 3, prev_start |-> 0,
                        prev_end |-> 1]
    /\ last.ret.p_count = 1
    /\ last.ret.count = 2

\* the number a percentage stands for
PctValue(d) ==
    LET body == SubSeq(d, 1, Len(d) - 1)
    IN IF Head(body) = "-" THEN 0 - DigitsVal(Tail(body), 0) ELSE DigitsVal(body, 0)

\* d is the change in per cent, to the nearest whole number, from the mean
\* ps / pn to the mean cs / cn (a mean over no score is 0), or the
\* placeholder when the mean before is 0
DeltaIs(d, cs, cn, ps, pn) ==
    IF pn = 0 \/ ps = 0 THEN d = Placeholder
    ELSE /\ d # Placeholder
         /\ d[Len(d)] = "%"
         /\ IF cn = 0 THEN PctValue(d) = 0 - 100
            ELSE 2 * Abs(PctValue(d) * ps * cn - (cs * pn - ps * cn) * 100) <= ps * cn

ScoreDeltaIs(d, col) ==
    DeltaIs(d, CellSum(Scored(CurRows, col), col), Cardinality(Scored(CurRows, col)),
            CellSum(Scored(PrevRows, col), col), Cardinality(Scored(PrevRows, col)))

\* C18: in a report over rows whose scores are numbers or "-", the change of
\* the count and of each average is the placeholder when the value of the
\* period before is zero and (current - previous) / previous * 100 when it
\* is not; nothing is raised.
C18_DeltaOrPlaceholder ==
    (last.op = "summarize" /\ ParsableScores) =>
        /\ ~last.ret.raised
        /\ ~last.ret.none =>
              /\ DeltaIs(last.ret.d_count, Cardinality(CurRows), 1,
                         Cardinality(PrevRows), 1)
              /\ ScoreDeltaIs(last.ret.d_diss, 7)
              /\ ScoreDeltaIs(last.ret.d_react, 10)

\* C18 witness: one row before with scores 0 and two rows now: the count
\* doubled, the averages have no percentage.
C18_Witness ==
    /\ Reported /\ ParsableScores
    /\ Cardinality(PrevRows) = 1 /\ Cardinality(CurRows) = 2
    /\ CellSum(PrevRows, 7) = 0
    /\ last.ret.d_count = <<"1", "0", "0", "%">>
    /\ last.ret.d_diss = Placeholder
    /\ last.ret.d_react = Placeholder

----------------------------------------------------------------------------
(* The start of the log flow over event files that hold rows of both users. *)

MaxLastRows == 3        \* rows of the event file when the behaviour starts
MaxLastEvents == 3      \* inbound updates per behaviour

InitLast ==
    /\ State = EmptyDict
    /\ CSV_PATH = PrimaryPath
    /\ MEDITATION_CSV_PATH = MedPrimaryPath
    /\ \E rs \in SeqsUpTo(StoredRows, MaxLastRows) :
          fs = WriteFile(WriteFile(EmptyDict, PrimaryPath, <<CSV_FIELDS>> \o rs),
                         MedPrimaryPath, <<MED_CSV_FIELDS>>)
    /\ job = IdleJob
    /\ last = NoLast
    /\ evLeft = MaxLastEvents
    /\ staleLeft = 1
    /\ gen = NoGen
    /\ hist = EmptyDict
    /\ msgs = EmptyDict
    /\ env = [deny |-> {}, sameFs |-> TRUE, client |-> TRUE]

NextLast ==
    \/ \E u \in Users : start_log(u, <<"/", "log">>)
    \/ \E u \in Users, data \in CallbackInputs : on_tag_or_use_last(u, data)

SpecLast == InitLast /\ [][NextLast]_vars

\* the rows (indices into the event file) whose user id cell is that of u
RowsOfUser(u) == {i \in 2..Len(Live) : Live[i][2] = IntToStr(u)}

\* C20: use_last makes the session of the user step diss_score with the tag
\* and the event description of the user's row of highest index, whatever
\* rows of other users the file holds, and changes no other session; when
\* the file has no row of the user every session stays as it was and the tag
\* keyboard is shown again.
C20_UseLastCopiesOwnLastRow ==
    [][(last'.op = "on_tag_or_use_last" /\ last'.data = <<"use_last">>) =>
          LET u == last'.uid
              mine == RowsOfUser(u)
          IN IF mine = {}
             THEN State' = State /\ last'.out = "no_last"
             ELSE LET i == CHOOSE x \in mine : \A y \in mine : y <= x
                  IN /\ State'[u] = [step |-> "diss_score", tag |-> Live[i][5],
                                     event_desc |-> Live[i][6]]
                     /\ \A v \in Users \ {u} : Sess(v)' = Sess(v)
      ]_vars

\* C20 witness: the file holds two rows of user 1 and then one of user 2;
\* user 1 pressed use_last and has the tag and event of the second row.
C20_Witness ==
    /\ last.op = "on_tag_or_use_last" /\ last.data = <<"use_last">> /\ last.uid = 1
    /\ last.pre = "tag"
    /\ Live = <<CSV_FIELDS, StoredRow(1, 1), StoredRow(1, 2), StoredRow(2, 1)>>
    /\ State[1] = [step |-> "diss_score", tag |-> TAGS[2], event_desc |-> <<"e", "2">>]

\* the reflection log and its last entry
ReflectionLog == IF Exists(fs, ReflectionsPath) THEN fs[ReflectionsPath] ELSE <<>>

SavePressed == last.op = "on_ai_reflect_actions" /\ last.data = <<"ai_reflect_save">>

\* C21: after save was pressed on a reflection message, the last entry of the
\* reflection log holds the user and the text that message displays.
C21_SaveWritesDisplayedText ==
    SavePressed =>
        /\ last.out = "saved"
        /\ ReflectionLog # <<>>
        /\ ReflectionLog[Len(ReflectionLog)][2] = IntToStr(last.uid)
        /\ ReflectionLog[Len(ReflectionLog)][3] = last.ret.text

----------------------------------------------------------------------------
(* Claims about the subscriber registry.                                    *)

\* the persisted list, and a list without one chat
Registry == IF SUBS_PATH \in DOMAIN fs THEN fs[SUBS_PATH] ELSE <<>>

RECURSIVE Others(_, _)
Others(list, c) ==
    IF list = <<>> THEN <<>>
    ELSE IF Head(list) = c THEN Others(Tail(list), c)
    ELSE <<Head(list)>> \o Others(Tail(list), c)

Listed(c, list) == c \in {list[i] : i \in 1..Len(list)}

\* C22: the persisted subscriber list never holds a chat twice; a subscribe
\* command leaves its chat in the list and an unsubscribe command leaves it
\* out, and neither changes the list of the other chats or their order (so,
\* from the empty registry, a chat is listed exactly when its latest command
\* was subscribe).
C22_SubscriberList ==
    [][ /\ \A i, j \in 1..Len(Registry') : Registry'[i] = Registry'[j] => i = j
        /\ last'.op \in {"handle_subscribe_daily", "handle_unsubscribe"} =>
              /\ Others(Registry', last'.uid) = Others(Registry, last'.uid)
              /\ Listed(last'.uid, Registry') <=> last'.op = "handle_subscribe_daily"
      ]_vars

C22_Witness ==
    /\ last.op = "handle_subscribe_daily" /\ last.out = "subscribed"
    /\ Len(Registry) = 3 /\ Registry[3] = 1 /\ evLeft = 0

\* C23: once the daily trigger has been handled, a summary was sent to every
\* chat of the subscriber list and to no other chat.
C23_DailyPushToSubscribers ==
    last.op = "daily_trigger" =>
        \A c \in Chats : c \in last.ret.sent <=> Listed(c, Registry)

\* the places of column name k in a header
Places(header, k) == {j \in 1..Len(header) : header[j] = k}

\* C25: a completed migration of a file whose header is not the canonical one
\* leaves the canonical header and as many data rows, in the same order; each
\* cell holds what the old row had under the column of the same name, or is
\* empty when the old header has no such column or the old row ends before it.
C25_MigrationKeepsRows ==
    (last.op = "migrate" /\ job.kind = "idle"
        /\ last.before # <<>> /\ Head(last.before) # CSV_FIELDS) =>
        /\ Head(Live) = CSV_FIELDS
        /\ Len(Live) = Len(last.before)
        /\ \A i \in 2..Len(Live) : \A c \in 1..NCols :
              LET at == Places(Head(last.before), CSV_FIELDS[c])
                  old == last.before[i]
              IN /\ Len(Live[i]) = NCols
                 /\ \A j \in at : j <= Len(old) => Live[i][c] = old[j]
                 /\ (\A j \in at : j > Len(old)) => Live[i][c] = <<>>

\* C25 witness: a legacy file of a whole row and a row cut short after the
\* letting_go_score column has been migrated.
C25_Witness ==
    /\ last.op = "migrate" /\ job.kind = "idle"
    /\ Len(last.before) = 3 /\ Head(last.before) = LegacyHeader
    /\ Len(last.before[2]) = 11 /\ Len(last.before[3]) = 8
    /\ Live[3][8] = last.before[3][7] /\ Live[3][9] = <<>> /\ Live[2][4] = <<>>

----------------------------------------------------------------------------
(* Claims about start-up and ensure-ready, checked under SpecReady.         *)

\* The first of the candidates at which a file can be created; 0 when there
\* is none.
FirstCreatable(cands) ==
    IF \A i \in 1..Len(cands) : cands[i] \in env.deny THEN 0
    ELSE CHOOSE i \in 1..Len(cands) :
            cands[i] \notin env.deny /\ \A j \in 1..(i - 1) : cands[j] \in env.deny

\* what ensure-ready is to do with the file at active path p (p2 after it),
\* header h and candidates cands, on disk f (f2 after it), with reply out
ReadyOutcome(p, p2, h, cands, f, f2, out) ==
    IF p \in DOMAIN f
    THEN p2 = p /\ f2 = f /\ out = "ok"
    ELSE IF FirstCreatable(cands) = 0
    THEN p2 = p /\ f2 = f /\ out = "raised"
    ELSE /\ p2 = cands[FirstCreatable(cands)]
         /\ out = "ok"
         /\ DOMAIN f2 = DOMAIN f \cup {p2}
         /\ f2[p2] = <<h>>
         /\ \A q \in DOMAIN f \ {p2} : f2[q] = f[q]

\* C24: ensure-ready leaves an existing file at the active path as it is;
\* when the file is absent it creates it, with the canonical header alone, at
\* the first of the active, the home and the process-id temp path that can be
\* created, and makes that path the active one; it raises only when none can.
C24_EnsureReadyFallbacks ==
    [][ /\ last'.op = "migrate" =>
              ReadyOutcome(CSV_PATH, CSV_PATH', CSV_FIELDS,
                           <<CSV_PATH, HomePath, TmpPidPath>>, fs, fs', last'.out)
        /\ last'.op = "med_init" =>
              ReadyOutcome(MEDITATION_CSV_PATH, MEDITATION_CSV_PATH', MED_CSV_FIELDS,
                           <<MEDITATION_CSV_PATH, MedHomePath, MedTmpPidPath>>,
                           fs, fs', last'.out)
      ]_vars

\* C24 witness: the event file was absent and has been created at the third
\* candidate, the first two being refused.
C24_Witness ==
    /\ last.op = "migrate" /\ last.out = "ok" /\ last.before = <<>>
    /\ CSV_PATH = TmpPidPath /\ fs[TmpPidPath] = <<CSV_FIELDS>>
    /\ PrimaryPath \in env.deny /\ HomePath \in env.deny

\* the data rows of the event store: of the file at the active path
StoreRows(f, p) == IF p \in DOMAIN f /\ f[p] # <<>> THEN Tail(f[p]) ELSE <<>>

\* C26: no step of start-up, ensure-ready (with its path fallbacks), append or
\* restart removes, changes or reorders a row of the event store: the rows
\* before the step are the first rows after it (no undo is issued here).
C26_RowsStay ==
    [][ /\ Len(StoreRows(fs', CSV_PATH')) >= Len(StoreRows(fs, CSV_PATH))
        /\ \A i \in 1..Len(StoreRows(fs, CSV_PATH)) :
              StoreRows(fs', CSV_PATH')[i] = StoreRows(fs, CSV_PATH)[i]
      ]_vars

----------------------------------------------------------------------------
(* Claims about the routing of updates.                                     *)

\* the edges of the log flow, idle and the reflection follow-up both being
\* "no step"
LogEdges ==
    { <<"tag", "event_desc">>, <<"tag", "diss_score">>,
      <<"event_desc", "diss_score">>, <<"diss_score", "diss_reason">>,
      <<"diss_reason", "react_desc">>, <<"react_desc", "react_score">>,
      <<"react_score", "react_reason">>, <<"react_reason", "confirm">>,
      <<"confirm", "react_score">>, <<"confirm", NoStep>> }

\* the step in which a button of the log flow is on offer
StepOfButton(b) ==
    IF b \in {"tag:", "use_last"} THEN "tag"
    ELSE IF b = "diss:" THEN "diss_score"
    ELSE IF b = "react:" THEN "react_score"
    ELSE "confirm"

LogFlowSteps ==
    {"on_tag_or_use_last", "on_score_callback", "on_confirm_flow", "step_event_desc",
     "step_diss_reason", "step_react_desc", "step_react_reason"}

\* C27: a handler of the log flow changes the step of its user only along an
\* edge of the flow or to "no step", and a tag, repeat-last, score, back or
\* confirm button pressed in a step that does not offer it leaves the user's
\* session as it was.
C27_LogFlowEdges ==
    [][ \A u \in Users : (last'.uid = u /\ last'.op \in LogFlowSteps) =>
          /\ StepOf(u)' # StepOf(u) =>
                (StepOf(u)' = NoStep \/ <<StepOf(u), StepOf(u)'>> \in LogEdges)
          /\ ( /\ last'.op \in {"on_tag_or_use_last", "on_score_callback", "on_confirm_flow"}
               /\ Head(last'.data) # "cancel"
               /\ StepOfButton(Head(last'.data)) # StepOf(u) ) => Sess(u)' = Sess(u)
      ]_vars

\* the names under which messages (not button presses) are noted
MessageOps ==
    {"handle_help", "start_log", "step_event_desc", "step_diss_reason",
     "step_react_desc", "step_react_reason", "handle_undo", "start_meditate",
     "med_custom_duration", "med_note_step", "handle_non_command_text",
     "handle_today", "none"}

\* the steps that expect text, each with its handler, and those that offer
\* buttons only
TextStepHandler ==
    [event_desc |-> "step_event_desc", diss_reason |-> "step_diss_reason",
     react_desc |-> "step_react_desc", react_reason |-> "step_react_reason",
     med_custom_duration |-> "med_custom_duration", med_note |-> "med_note_step"]

ButtonOnlySteps == {"tag", "diss_score", "react_score", "confirm", "med_duration", "med_type"}

FreeTextFrom(u) ==
    /\ last'.uid = u /\ last'.op \in MessageOps
    /\ last'.data # <<>> /\ Head(last'.data) # "/"

\* C28: a free-text message is handled by the handler of the sender's step and
\* by no other; with no step it goes to the generic responder, which changes no
\* session and no file; in a button-only step it changes no session and no
\* file; the session of another user is never changed.
C28_FreeTextByStep ==
    [][ \A u \in Users : FreeTextFrom(u) =>
          /\ StepOf(u) \in DOMAIN TextStepHandler =>
                last'.op = TextStepHandler[StepOf(u)]
          /\ StepOf(u) = NoStep =>
                last'.op = "handle_non_command_text" /\ State' = State /\ fs' = fs
          /\ StepOf(u) \in ButtonOnlySteps => State' = State /\ fs' = fs
          /\ \A v \in Users \ {u} : Sess(v)' = Sess(v)
      ]_vars

\* C28 witness: text was sent in the reflection follow-up, and the session is
\* still there.
C28_Witness ==
    /\ last.op = "handle_non_command_text" /\ last.pre = NoStep
    /\ "last_reflection_text" \in DOMAIN Sess(last.uid)

\* a button of a reflection message is pressed by u in the reflection follow-up
FollowupPress(u) ==
    /\ last'.uid = u /\ last'.op = "on_ai_reflect_actions"
    /\ StepOf(u) = NoStep
    /\ {"last_reflection_input", "last_reflection_text"} \subseteq DOMAIN Sess(u)

\* C29: in the reflection follow-up, close leaves the session as it was;
\* regenerate leaves every key of the session but the stored text as it was,
\* the input payload included, and the stored text is the text the message
\* now shows; no button changes the event file.
C29_FollowupKeepsPayload ==
    [][ \A u \in Users : FollowupPress(u) =>
          /\ Head(last'.data) = "ai_reflect_close" => Sess(u)' = Sess(u)
          /\ Head(last'.data) = "ai_reflect_again" =>
                /\ DOMAIN Sess(u)' = DOMAIN Sess(u)
                /\ \A key \in DOMAIN Sess(u) \ {"last_reflection_text"} :
                      Sess(u)'[key] = Sess(u)[key]
                /\ Sess(u)'["last_reflection_text"] = msgs'[u][last'.ret.msg].text
          /\ CSV_PATH' = CSV_PATH
          /\ fs'[CSV_PATH] = fs[CSV_PATH]
      ]_vars

\* C29 witness: regenerate has replaced the text of a message by another text,
\* and the payload of the confirmed flow is still stored.
C29_Witness ==
    /\ last.op = "on_ai_reflect_actions" /\ last.out = "regenerated"
    /\ msgs[last.uid][last.ret.msg].text # last.ret.text
    /\ Sess(last.uid)["last_reflection_input"].event = <<"a">>

----------------------------------------------------------------------------
(* Claims about the meditation file, undo, delivery and the users' turns.   *)

\* C31: after ensure-ready for the meditation kind has returned, the
\* meditation file has the canonical 7-column header.
C31_MedEnsureMigrates ==
    (last.op = "med_init" /\ last.out = "ok") =>
        /\ MEDITATION_CSV_PATH \in DOMAIN fs
        /\ fs[MEDITATION_CSV_PATH] # <<>>
        /\ Head(fs[MEDITATION_CSV_PATH]) = MED_CSV_FIELDS

\* the event store holds no row of user u
NoRowOf(u) ==
    \A i \in 2..Len(fs[CSV_PATH]) : fs[CSV_PATH][i][2] # IntToStr(u)

LinesAt(f, p) == IF p \in DOMAIN f THEN Len(f[p]) ELSE 0

\* C33: whether or not the messages of the handler were delivered, once a
\* confirm has added a row to the event file the user's step is no longer
\* confirm, and once a meditation note has added a row to the meditation file
\* the user's step is no longer med_note.
C33_LeavesStepAfterPersist ==
    [][ \A u \in Users : last'.uid = u =>
          /\ ( /\ last'.op = "on_confirm_flow"
               /\ LinesAt(fs', CSV_PATH') > LinesAt(fs, CSV_PATH) ) =>
                  StepOf(u)' # "confirm"
          /\ ( /\ last'.op = "med_note_step"
               /\ LinesAt(fs', MEDITATION_CSV_PATH') > LinesAt(fs, MEDITATION_CSV_PATH) ) =>
                  StepOf(u)' # "med_note"
      ]_vars

\* the decimal text of a score
ScoreText(n) == IF n = 10 THEN <<"1", "0">> ELSE <<Digits[n + 1]>>

\* the last line of the event file after a step
NewRow == fs'[CSV_PATH'][Len(fs'[CSV_PATH'])]

\* C34: the handling of an update of user a leaves the session of every other
\* user as it was, and the row that a confirm of a at step confirm appends
\* carries a's id and, cell by cell, the answers in a's own session.
C34_UsersApart ==
    [][ \A a \in Users : last'.uid = a =>
          /\ \A b \in Users \ {a} :
                /\ (b \in DOMAIN State') = (b \in DOMAIN State)
                /\ b \in DOMAIN State => State'[b] = State[b]
          /\ ( /\ last'.op = "on_confirm_flow" /\ last'.data = <<"confirm">>
               /\ a \in DOMAIN State /\ "step" \in DOMAIN State[a]
               /\ State[a]["step"] = "confirm"
               /\ LinesAt(fs', CSV_PATH') > LinesAt(fs, CSV_PATH) ) =>
                /\ LinesAt(fs', CSV_PATH') = LinesAt(fs, CSV_PATH) + 1
                /\ NewRow[2] = ScoreText(a)
                /\ NewRow[5] = State[a]["tag"]
                /\ NewRow[6] = State[a]["event_desc"]
                /\ NewRow[7] = ScoreText(State[a]["dissatisfaction_score"])
                /\ NewRow[8] = State[a]["dissatisfaction_reason"]
                /\ NewRow[9] = State[a]["reaction_desc"]
                /\ NewRow[10] = ScoreText(State[a]["reaction_score"])
                /\ NewRow[11] = State[a]["reaction_reason"]
      ]_vars

\* C34 witness: user 2 confirmed while user 1 was in a flow, then user 1
\* confirmed: two rows, each with the answers of its user.
C34_Witness ==
    /\ last.op = "on_confirm_flow" /\ last.out = "saved" /\ last.uid = 1
    /\ Len(fs[CSV_PATH]) = 3
    /\ fs[CSV_PATH][2][2] = <<"2">> /\ fs[CSV_PATH][2][6] = <<"b">>
    /\ fs[CSV_PATH][3][2] = <<"1">> /\ fs[CSV_PATH][3][6] = <<"a">>
    /\ fs[CSV_PATH][3][11] = <<"b">>

====
